---- MODULE Spec2Model ----
(***************************************************************************)
(* Session pool, session state machine and notification routing of the     *)
(* openclaw-claude-code-plugin (SessionManager, Session,                   *)
(* NotificationRouter).  One action per public operation, engine event or  *)
(* timer callback.  Time is the value Date.now() returns, in milliseconds. *)
(***************************************************************************)
EXTENDS Integers, Sequences, FiniteSets, TLC

\* ------------------------------------------------------------------ bounds
\* Number of Session objects ever constructed (nanoid ids 1..NumIds).
NumIds == 2
\* Engine events delivered to one session's consumption loop, in the pool
\* specification and in the single-session specification.
MaxEvents == 2
SessionEvents == 3
\* Calls of SessionManager.kill per session.
MaxKills == 1
SessionKills == 1
\* Messages queued in one session's MessageStream.
MaxPending == 1
\* Output events beyond the capacity of the output buffer.
ExtraOutputs == 2
\* Calls of MessageStream.push in the stream specification.
MaxPush == 3
\* Number of clock advances.
MaxTicks == 1
\* Entries of the agentChannels table.
MaxTable == 2

\* ------------------------------------------------------- configuration
\* SessionManager.maxSessions (the concurrency cap, pluginConfig.maxSessions).
maxSessions == 1
\* SessionManager.maxPersistedSessions (pluginConfig.maxPersistedSessions).
maxPersistedSessions == 1
CLEANUP_MAX_AGE_MS == 60 * 60 * 1000
OUTPUT_BUFFER_MAX == 200
\* One clock advance: just over the retention window.
TickMs == CLEANUP_MAX_AGE_MS + 1

\* ------------------------------------------------------------ domains
Ids == 1..NumIds
\* Destinations known to a session; NoChannel is an undefined originChannel.
Channels == {"telegram:1", "telegram:2"}
NoChannel == "undefined"
\* The sentinel of resolveOriginChannel.
Unknown == "unknown"
\* Every destination the router can be asked to deliver to.
Dests ==
  Channels \cup {Unknown, "telegram", "telegram:", "telegram:bot:1", "telegram::",
                 "telegram|bot|1"}
\* Correlation ids the engine hands out in its init message; 0 is undefined.
ClaudeIds == {1, 2}
Active == {"starting", "running"}
Terminal == {"completed", "failed", "killed"}
Subtypes == {"success", "error_max_budget_usd", "error_during_execution"}
\* Content blocks of one assistant message.
BlockLists == {<<"text">>, <<"tool_use">>}

VARIABLES
  obj,               \* every Session object constructed so far: id -> fields
  sessions,          \* SessionManager.sessions: the ids in the pool
  persistedSessions, \* SessionManager.persistedSessions, in Map insertion order
  metrics,           \* SessionManager._metrics
  debounceMap,       \* NotificationRouter.debounceMap: <<id, channel>> -> buffer
  now,               \* Date.now()
  outbox,            \* what the step just taken handed to the delivery function
                     \* (NotificationRouter.sendMessage), per destination, in order
  stream,            \* one MessageStream with its consumer (the engine)
  pluginConfig,      \* shared.ts pluginConfig: agentChannels and fallbackChannel
  hist,              \* observation: per-session counters of callbacks and deliveries
  last               \* observation: the operation that produced this state, the
                     \* session it ran on and that session's status before it

vars == <<obj, sessions, persistedSessions, metrics, debounceMap, now, outbox,
          stream, pluginConfig, hist, last>>

\* ------------------------------------------------------------ helpers
RECURSIVE SetToSeq(_)
SetToSeq(S) == IF S = {} THEN <<>>
               ELSE LET x == CHOOSE y \in S : \A z \in S : y <= z
                    IN <<x>> \o SetToSeq(S \ {x})

\* Mutant of ActiveCount: a session still starting is not counted.
ActiveCountRunningOnly == Cardinality({s \in sessions : obj[s].status = "running"})

\* SessionManager.spawn: const activeCount
ActiveCount == Cardinality({s \in sessions : obj[s].status \in Active})

\* A name is a string made of a word and "-k" segments, written as the
\* sequence of its parts: <<"task", 2>> is "task-2", whether it was asked
\* for as such or made from "task" by a suffix.
Suffixed(baseName, i) == Append(baseName, i)

\* Mutant of uniqueName: the requested name is used as it is.
uniqueNameUnchecked(baseName) == baseName

\* SessionManager.uniqueName
uniqueName(baseName) ==
  LET existing == {obj[s].name : s \in sessions}
  IN IF baseName \notin existing THEN baseName
     ELSE LET i == CHOOSE k \in 2..(Cardinality(existing) + 2) :
                     /\ Suffixed(baseName, k) \notin existing
                     /\ \A j \in 2..(k - 1) : Suffixed(baseName, j) \in existing
          IN Suffixed(baseName, i)

\* Mutant of NewSession: a synchronous throw in start() leaves the status as
\* the constructor set it.
NewSessionThrowIgnored(id, nm, multi, origin, startThrows, workdir) ==
  [ id |-> id, name |-> nm, workdir |-> workdir, claudeSessionId |-> 0, multiTurn |-> multi,
    status |-> "starting",
    error |-> startThrows,
    startedAt |-> now,
    completedAt |-> IF startThrows THEN now ELSE 0,
    costUsd |-> 0, budgetExhausted |-> FALSE,
    waitingForInputFired |-> FALSE,
    safetyNetTimer |-> FALSE, idleTimer |-> FALSE,
    foregroundChannels |-> {}, fgOutputOffsets |-> [c \in Channels |-> 0],
    seenText |-> [c \in Channels |-> 0],
    outputBuffer |-> <<>>, originChannel |-> origin,
    streamDone |-> FALSE, pending |-> 0,
    engine |-> IF startThrows THEN "none" ELSE "preinit",
    aborted |-> FALSE,
    \* observation: a text or tool_use block arrived since resetIdleTimer
    activeSinceArmed |-> FALSE ]

\* new Session(config, name) followed by the part of start() that runs
\* before the first await.
NewSession(id, nm, multi, origin, startThrows, workdir) ==
  [ id |-> id, name |-> nm, workdir |-> workdir, claudeSessionId |-> 0, multiTurn |-> multi,
    status |-> IF startThrows THEN "failed" ELSE "starting",
    error |-> startThrows,
    startedAt |-> now,
    completedAt |-> IF startThrows THEN now ELSE 0,
    costUsd |-> 0, budgetExhausted |-> FALSE,
    waitingForInputFired |-> FALSE,
    safetyNetTimer |-> FALSE, idleTimer |-> FALSE,
    foregroundChannels |-> {}, fgOutputOffsets |-> [c \in Channels |-> 0],
    seenText |-> [c \in Channels |-> 0],
    outputBuffer |-> <<>>, originChannel |-> origin,
    streamDone |-> FALSE, pending |-> 0,
    engine |-> IF startThrows THEN "none" ELSE "preinit",
    aborted |-> FALSE,
    \* observation: a text or tool_use block arrived since resetIdleTimer
    activeSinceArmed |-> FALSE ]

NewHist ==
  [ requested |-> <<>>, events |-> 0, kills |-> 0, recorded |-> 0,
    cb |-> <<>>, activity |-> TRUE, sinceActivity |-> 0, texts |-> <<>>,
    wakes |-> 0, waitWakes |-> 0, wakeVia |-> [cmd |-> "none"],
    written |-> FALSE,
    complete |-> [c \in Dests \cup {NoChannel} |-> 0],
    budget |-> [c \in Dests \cup {NoChannel} |-> 0],
    waiting |-> [c \in Dests \cup {NoChannel} |-> 0] ]

\* ------------------------------------------------- shared.ts
\* A path is the sequence of its characters.
Slash == "/"

\* p.replace(/\/+$/, ""): every trailing slash is removed
RECURSIVE normalise(_)
normalise(p) ==
  IF p # <<>> /\ p[Len(p)] = Slash THEN normalise(SubSeq(p, 1, Len(p) - 1)) ELSE p

\* String.prototype.startsWith
startsWith(s, prefix) ==
  Len(prefix) <= Len(s) /\ SubSeq(s, 1, Len(prefix)) = prefix

\* The initial value of pluginConfig: no agentChannels, no fallbackChannel.
\* An optional field is <<>> (undefined) or <<value>>; agentChannels lists its
\* entries in the order of Object.entries.
DefaultConfig == [agentChannels |-> <<>>, fallbackChannel |-> <<>>]

\* The test of one entry in resolveAgentChannel
DirMatches(normWorkdir, dir) ==
  \/ normWorkdir = normalise(dir)
  \/ startsWith(normWorkdir, Append(normalise(dir), Slash))

\* resolveAgentChannel: the first entry, in table order, that matches
resolveAgentChannel(workdir) ==
  IF pluginConfig.agentChannels = <<>> THEN NoChannel
  ELSE LET mapping == pluginConfig.agentChannels[1]
           normWorkdir == normalise(workdir)
           hits == {i \in 1..Len(mapping) : DirMatches(normWorkdir, mapping[i].dir)}
       IN IF hits = {} THEN NoChannel
          ELSE mapping[CHOOSE i \in hits : \A j \in hits : i <= j].channel

\* Strings that are taken apart or put together, each with its sequence of
\* tokens: a token is a separator (":" or "|") or a run of other characters.
StringTokens ==
  "" :> <<>> @@
  "unknown" :> <<"unknown">> @@
  "toolu_1" :> <<"toolu_1">> @@
  "telegram" :> <<"telegram">> @@
  "bot" :> <<"bot">> @@
  "1" :> <<"1">> @@
  "2" :> <<"2">> @@
  "telegram:1" :> <<"telegram", ":", "1">> @@
  "telegram:2" :> <<"telegram", ":", "2">> @@
  "telegram|1" :> <<"telegram", "|", "1">> @@
  "telegram|bot|1" :> <<"telegram", "|", "bot", "|", "1">> @@
  "telegram:bot:1" :> <<"telegram", ":", "bot", ":", "1">> @@
  "telegram::" :> <<"telegram", ":", ":">> @@
  "telegram:" :> <<"telegram", ":">>

Tokens(s) == StringTokens[s]
Str(t) == CHOOSE s \in DOMAIN StringTokens : StringTokens[s] = t

\* a value that is neither undefined nor the empty string
Truthy(s) == s \notin {NoChannel, ""}

\* String.prototype.includes, for a separator
includes(s, sep) == \E i \in 1..Len(Tokens(s)) : Tokens(s)[i] = sep

\* /^-?\d+$/.test
IsNumeric(s) == s \in {"1", "2"}

RECURSIVE splitTokens(_, _)
splitTokens(t, sep) ==
  IF \A i \in 1..Len(t) : t[i] # sep THEN <<t>>
  ELSE LET i == CHOOSE k \in 1..Len(t) :
                  t[k] = sep /\ \A j \in 1..(k - 1) : t[j] # sep
       IN <<SubSeq(t, 1, i - 1)>> \o splitTokens(SubSeq(t, i + 1, Len(t)), sep)

\* String.prototype.split(sep)
split(s, sep) ==
  LET parts == splitTokens(Tokens(s), sep)
  IN [k \in 1..Len(parts) |-> Str(parts[k])]

\* Array.prototype.join(sep), as tokens
RECURSIVE joinTokens(_, _)
joinTokens(parts, sep) ==
  IF parts = <<>> THEN <<>>
  ELSE IF Len(parts) = 1 THEN Tokens(parts[1])
  ELSE Tokens(parts[1]) \o <<sep>> \o joinTokens(Tail(parts), sep)

\* resolveOriginChannel; a field of ctx that is absent is NoChannel
resolveOriginChannel(ctx, explicitChannel) ==
  IF Truthy(explicitChannel) /\ includes(explicitChannel, ":") THEN explicitChannel
  ELSE IF Truthy(ctx.channel) /\ Truthy(ctx.chatId)
  THEN Str(Tokens(ctx.channel) \o <<":">> \o Tokens(ctx.chatId))
  ELSE IF Truthy(ctx.channel) /\ Truthy(ctx.senderId)
  THEN Str(Tokens(ctx.channel) \o <<":">> \o Tokens(ctx.senderId))
  ELSE IF Truthy(ctx.id) /\ IsNumeric(ctx.id)
  THEN Str(<<"telegram", ":">> \o Tokens(ctx.id))
  ELSE IF Truthy(ctx.channelId) /\ includes(ctx.channelId, ":") THEN ctx.channelId
  ELSE IF pluginConfig.fallbackChannel = <<>> THEN Unknown
  ELSE pluginConfig.fallbackChannel[1]

\* The context a tool passes to resolveOriginChannel: { id: _id }
ToolCtx(toolCallId) ==
  [channel |-> NoChannel, chatId |-> NoChannel, senderId |-> NoChannel,
   id |-> toolCallId, channelId |-> NoChannel]

\* ------------------------------------------------- delivery function
\* String.prototype.split(":", 2): at most the first two parts
split2(s) ==
  LET parts == split(s, ":")
  IN IF Len(parts) > 2 THEN SubSeq(parts, 1, 2) ELSE parts

\* fallbackChannel and fallbackTarget of the delivery function
Fallback ==
  LET fb == pluginConfig.fallbackChannel
      parts == split2(fb[1])
  IN IF fb # <<>> /\ includes(fb[1], ":") /\ parts[1] # "" /\ parts[2] # ""
     THEN [channel |-> parts[1], target |-> parts[2]]
     ELSE [channel |-> "telegram", target |-> ""]

\* Mutant of sendMessage: a destination without ":" is taken as a bare
\* target.
sendMessageBareTarget(channelId) ==
  IF Truthy(channelId) /\ includes(channelId, ":")
  THEN [cmd |-> "message send", channel |-> split2(channelId)[1],
        target |-> split2(channelId)[2]]
  ELSE [cmd |-> "message send", channel |-> "telegram", target |-> channelId]

\* The delivery function given to the NotificationRouter: the command line it
\* runs for a destination, or none when the message is not sent.
sendMessage(channelId) ==
  LET toFallback ==
        IF Fallback.target # ""
        THEN [cmd |-> "message send", channel |-> Fallback.channel,
              target |-> Fallback.target]
        ELSE [cmd |-> "none"]
  IN IF channelId = Unknown \/ ~Truthy(channelId) THEN toFallback
     ELSE IF includes(channelId, ":")
     THEN LET parts == split2(channelId)
          IN IF parts[1] # "" /\ parts[2] # ""
             THEN [cmd |-> "message send", channel |-> parts[1], target |-> parts[2]]
             ELSE [cmd |-> "message send", channel |-> Fallback.channel,
                   target |-> Fallback.target]
     ELSE IF IsNumeric(channelId)
     THEN [cmd |-> "message send", channel |-> "telegram", target |-> channelId]
     ELSE toFallback

\* ------------------------------------------------- claude_launch
\* process.cwd(): the path /c
Cwd == <<"/", "c">>

\* params.workdir || ctx.workspaceDir || process.cwd(); an absent path is <<>>
\* and a given one is <<path>>
LaunchWorkdir(ctx, params) ==
  IF params.workdir # <<>> THEN params.workdir[1]
  ELSE IF ctx.workspaceDir # <<>> THEN ctx.workspaceDir[1]
  ELSE params.cwd

\* ctxChannel of makeClaudeLaunchTool.execute
LaunchCtxChannel(ctx) ==
  LET parts == split(ctx.messageChannel, "|")
      injected ==
        IF Truthy(ctx.messageChannel) /\ Truthy(ctx.agentAccountId) /\ Len(parts) >= 2
        THEN Str(Tokens(parts[1]) \o <<"|">> \o Tokens(ctx.agentAccountId)
                 \o <<"|">> \o joinTokens(Tail(parts), "|"))
        ELSE NoChannel
      looked ==
        IF ~Truthy(injected) /\ ctx.workspaceDir # <<>>
        THEN resolveAgentChannel(ctx.workspaceDir[1]) ELSE injected
  IN IF ~Truthy(looked) /\ Truthy(ctx.messageChannel)
        /\ includes(ctx.messageChannel, "|")
     THEN ctx.messageChannel ELSE looked

\* originChannel of makeClaudeLaunchTool.execute
LaunchOrigin(ctx, params) ==
  LET workdir == LaunchWorkdir(ctx, params)
      ctxChannel == LaunchCtxChannel(ctx)
      originChannel ==
        resolveOriginChannel(ToolCtx(params.toolCallId),
                             IF Truthy(ctxChannel) THEN ctxChannel
                             ELSE resolveAgentChannel(workdir))
  IN IF originChannel = Unknown /\ Truthy(resolveAgentChannel(workdir))
     THEN resolveAgentChannel(workdir) ELSE originChannel

\* ------------------------------------------------- SessionManager state
\* The manager and router state a handler threads through its calls:
\* p = persistedSessions, m = _metrics, d = debounceMap, h = hist.
\* o = what the handler has handed to the delivery function so far.
NoOut == [c \in Dests |-> <<>>]

World ==
  [p |-> persistedSessions, m |-> metrics, d |-> debounceMap, h |-> hist, o |-> NoOut]

\* this.sendMessage(channelId, ...) for every channel of chs
Send(w, chs, item) ==
  [w EXCEPT !.o = [c \in DOMAIN @ |-> IF c \in chs THEN Append(@[c], item) ELSE @[c]]]

IdKey(id) == <<"id", id>>
NameKey(nm) == <<"name", nm>>
ClaudeKey(c) == <<"claude", c>>

\* Map.has
PHas(p, key) == \E i \in 1..Len(p) : p[i].key = key
\* Map.get (used where PHas holds)
PGet(p, key) == (CHOOSE e \in {p[i] : i \in 1..Len(p)} : e.key = key).info
\* Map.set: an existing key keeps its position, a new key goes last.
PSet(p, key, info) ==
  IF PHas(p, key)
  THEN [i \in 1..Len(p) |-> IF p[i].key = key THEN [key |-> key, info |-> info]
                            ELSE p[i]]
  ELSE Append(p, [key |-> key, info |-> info])

\* SessionManager.recordSessionMetrics
recordSessionMetrics(w, r) ==
  LET m == w.m
      m1 == [m EXCEPT !.totalCostUsd = @ + r.costUsd]
      m2 == IF r.status \in Terminal
            THEN [m1 EXCEPT !.sessionsByStatus[r.status] = @ + 1] ELSE m1
      m3 == IF r.completedAt # 0
            THEN [m2 EXCEPT !.totalDurationMs = @ + (r.completedAt - r.startedAt),
                            !.sessionsWithDuration = @ + 1]
            ELSE m2
      m4 == IF m3.mostExpensive = <<0, 0>> \/ r.costUsd > m3.mostExpensive[2]
            THEN [m3 EXCEPT !.mostExpensive = <<r.id, r.costUsd>>] ELSE m3
  IN [w EXCEPT !.m = m4, !.h[r.id].recorded = @ + 1]

\* owner is an observation: the session the snapshot was taken of
PersistedInfo(r) ==
  [ owner |-> r.id, claudeSessionId |-> r.claudeSessionId, name |-> r.name,
    completedAt |-> r.completedAt, status |-> r.status, costUsd |-> r.costUsd ]

\* Mutant of persistSession: the snapshot is stored under the internal id
\* only.
persistSessionIdOnly(w, r) ==
  LET w1 == IF ~PHas(w.p, IdKey(r.id)) THEN recordSessionMetrics(w, r) ELSE w
  IN IF r.claudeSessionId = 0 THEN w1
     ELSE [w1 EXCEPT !.p = PSet(@, IdKey(r.id), PersistedInfo(r)),
                     !.h[r.id].written = TRUE]

\* SessionManager.persistSession
persistSession(w, r) ==
  LET alreadyPersisted == PHas(w.p, IdKey(r.id))
      w1 == IF ~alreadyPersisted THEN recordSessionMetrics(w, r) ELSE w
      info == PersistedInfo(r)
  IN IF r.claudeSessionId = 0 THEN w1
     ELSE [w1 EXCEPT !.p = PSet(PSet(PSet(@, IdKey(r.id), info),
                                     NameKey(r.name), info),
                                ClaudeKey(r.claudeSessionId), info),
                     !.h[r.id].written = TRUE]

\* ------------------------------------------------- NotificationRouter
\* NotificationRouter.flushDebounced, for every channel of chs
flushDebounced(w, id, chs) ==
  [w EXCEPT !.d = [k \in DOMAIN @ \ {<<id, c>> : c \in chs} |-> @[k]],
            !.o = [c \in DOMAIN @ |->
                     IF c \in chs /\ <<id, c>> \in DOMAIN w.d
                     THEN Append(@[c], [kind |-> "text", sid |-> id,
                                        body |-> w.d[<<id, c>>]])
                     ELSE @[c]]]

\* NotificationRouter.cleanupSession
cleanupSession(w, id) ==
  [w EXCEPT !.d = [k \in {x \in DOMAIN @ : x[1] # id} |-> @[k]]]

\* foreground channels plus the origin channel, when there is one
NotifyChannels(r) ==
  r.foregroundChannels \cup (IF r.originChannel \notin {NoChannel, ""}
                             THEN {r.originChannel} ELSE {})

\* NotificationRouter.onSessionComplete
onSessionComplete(w, r) ==
  LET w1 == flushDebounced(w, r.id, r.foregroundChannels)
      w2 == [w1 EXCEPT !.h[r.id].complete =
               [c \in DOMAIN @ |-> IF c \in NotifyChannels(r) THEN @[c] + 1 ELSE @[c]]]
      w3 == Send(w2, NotifyChannels(r), [kind |-> "complete", sid |-> r.id, body |-> <<>>])
  IN cleanupSession(w3, r.id)

\* NotificationRouter.onBudgetExhausted
onBudgetExhausted(w, r) ==
  LET w1 == flushDebounced(w, r.id, r.foregroundChannels)
      w2 == [w1 EXCEPT !.h[r.id].budget =
               [c \in DOMAIN @ |-> IF c \in NotifyChannels(r) THEN @[c] + 1 ELSE @[c]]]
      w3 == Send(w2, NotifyChannels(r), [kind |-> "budget", sid |-> r.id, body |-> <<>>])
  IN cleanupSession(w3, r.id)

\* NotificationRouter.onWaitingForInput
onWaitingForInput(w, r) ==
  LET w1 == flushDebounced(w, r.id, r.foregroundChannels)
      w2 == [w1 EXCEPT !.h[r.id].waiting =
               [c \in DOMAIN @ |-> IF c \in NotifyChannels(r) THEN @[c] + 1 ELSE @[c]]]
  IN Send(w2, NotifyChannels(r), [kind |-> "waiting", sid |-> r.id, body |-> <<>>])

\* NotificationRouter.appendDebounced
appendDebounced(d, id, ch, text) ==
  LET key == <<id, ch>>
  IN IF key \in DOMAIN d THEN [d EXCEPT ![key] = Append(@, text)]
     ELSE [k \in DOMAIN d \cup {key} |-> IF k = key THEN <<text>> ELSE d[k]]

\* NotificationRouter.onAssistantText
onAssistantText(w, r, text) ==
  [w EXCEPT !.d = [k \in DOMAIN @ \cup {<<r.id, c>> : c \in r.foregroundChannels} |->
                     IF k[1] = r.id /\ k[2] \in r.foregroundChannels
                     THEN appendDebounced(w.d, r.id, k[2], text)[k]
                     ELSE w.d[k]]]

\* SessionManager.routeEventMessage: the command line it runs
routeEventMessage(originChannel) ==
  LET parts == split(originChannel, ":")
      systemEvent == [cmd |-> "system event"]
  IN IF ~(Truthy(originChannel) /\ originChannel # Unknown) THEN systemEvent
     ELSE IF Len(parts) < 2 THEN systemEvent
     ELSE IF Len(parts) >= 3
     THEN [cmd |-> "message send", channel |-> parts[1], account |-> parts[2],
           target |-> Str(joinTokens(SubSeq(parts, 3, Len(parts)), ":"))]
     ELSE IF parts[1] # "" /\ parts[2] # ""
     THEN [cmd |-> "message send", channel |-> parts[1], account |-> NoChannel,
           target |-> parts[2]]
     ELSE systemEvent

\* SessionManager.triggerAgentEvent: one wake through routeEventMessage
triggerAgentEvent(w, r) ==
  [w EXCEPT !.h[r.id].wakes = @ + 1,
            !.h[r.id].wakeVia = routeEventMessage(r.originChannel)]

\* SessionManager.triggerWaitingForInputEvent
triggerWaitingForInputEvent(w, r) ==
  [w EXCEPT !.h[r.id].waitWakes = @ + 1,
            !.h[r.id].wakeVia = routeEventMessage(r.originChannel)]

\* ------------------------------------- callbacks wired by spawn()
\* Mutant of cbOnComplete: the completion notification is sent also after
\* the budget notification.
cbOnCompleteAlwaysNotifies(w, r) ==
  LET w0 == [w EXCEPT !.h[r.id].cb = Append(@, "complete")]
  IN triggerAgentEvent(onSessionComplete(persistSession(w0, r), r), r)

\* session.onComplete
cbOnComplete(w, r) ==
  LET w0 == [w EXCEPT !.h[r.id].cb = Append(@, "complete")]
      w1 == persistSession(w0, r)
      w2 == IF ~r.budgetExhausted THEN onSessionComplete(w1, r) ELSE w1
  IN triggerAgentEvent(w2, r)

\* session.onBudgetExhausted
cbOnBudgetExhausted(w, r) ==
  onBudgetExhausted([w EXCEPT !.h[r.id].cb = Append(@, "budget")], r)

\* session.onWaitingForInput
cbOnWaitingForInput(w, r) ==
  LET w0 == [w EXCEPT !.h[r.id].cb = Append(@, "waiting"),
                      !.h[r.id].activity = FALSE,
                      !.h[r.id].sinceActivity = @ + 1]
  IN triggerWaitingForInputEvent(onWaitingForInput(w0, r), r)

\* ------------------------------------------------------------ Session
\* Session.kill
kill(r) ==
  IF r.status \notin Active THEN r
  ELSE [r EXCEPT !.idleTimer = FALSE, !.safetyNetTimer = FALSE,
                 !.status = "killed", !.completedAt = now,
                 !.streamDone = IF r.multiTurn THEN TRUE ELSE @,
                 !.aborted = TRUE]

\* Mutant of resetIdleTimer: the timer is armed whatever the session's mode.
resetIdleTimerAnySession(r) ==
  [r EXCEPT !.idleTimer = TRUE, !.activeSinceArmed = FALSE]

\* Session.resetIdleTimer
resetIdleTimer(r) ==
  [r EXCEPT !.idleTimer = r.multiTurn, !.activeSinceArmed = FALSE]

\* Session.resetSafetyNetTimer
resetSafetyNetTimer(r) == [r EXCEPT !.safetyNetTimer = TRUE]

\* Session.clearSafetyNetTimer
clearSafetyNetTimer(r) == [r EXCEPT !.safetyNetTimer = FALSE]

\* new MessageStream(), and its consumer before the first next(); pushed,
\* yielded and atEnd observe what was pushed, what the iterator yielded and
\* how many messages had been pushed when end() was first called.
NewStream ==
  [ queue |-> <<>>, resolve |-> FALSE, done |-> FALSE,
    pc |-> "idle", woken |-> FALSE,
    pushed |-> <<>>, yielded |-> <<>>, atEnd |-> 0 ]

Init ==
  /\ obj = <<>>
  /\ sessions = {}
  /\ persistedSessions = <<>>
  /\ metrics = [ totalCostUsd |-> 0,
                 sessionsByStatus |-> [st \in Terminal |-> 0],
                 totalLaunched |-> 0, totalDurationMs |-> 0,
                 sessionsWithDuration |-> 0, mostExpensive |-> <<0, 0>> ]
  /\ debounceMap = <<>>
  /\ now = TickMs
  /\ outbox = NoOut
  /\ stream = NewStream
  /\ pluginConfig = DefaultConfig
  /\ hist = <<>>
  /\ last = [op |-> "none", id |-> 0, err |-> FALSE, pre |-> ""]

\* SessionManager.spawn; req is <<>> or the request of the tool that called it
SpawnFrom(baseName, multi, origin, startThrows, req) ==
  /\ IF ActiveCount >= maxSessions
     THEN /\ last' = [op |-> "spawn", id |-> 0, err |-> TRUE, pre |-> "", arg |-> req]
          /\ outbox' = NoOut
          /\ UNCHANGED pluginConfig
          /\ UNCHANGED <<obj, sessions, persistedSessions, metrics, debounceMap,
                         now, stream, hist>>
     ELSE LET id == Len(obj) + 1
              nm == uniqueName(baseName)
              wd == IF req = <<>> THEN Cwd
                    ELSE LaunchWorkdir(req[1].ctx, req[1].params)
          IN /\ obj' = Append(obj, NewSession(id, nm, multi, origin, startThrows, wd))
             /\ sessions' = sessions \cup {id}
             /\ metrics' = [metrics EXCEPT !.totalLaunched = @ + 1]
             /\ hist' = Append(hist, [NewHist EXCEPT !.requested = baseName])
             /\ last' = [op |-> "spawn", id |-> id, err |-> FALSE, pre |-> "",
                         arg |-> req]
             /\ outbox' = NoOut
             /\ UNCHANGED pluginConfig
             /\ UNCHANGED <<persistedSessions, debounceMap, now, stream>>

\* SessionManager.spawn called with a given originChannel
Spawn(baseName, multi, origin, startThrows) ==
  SpawnFrom(baseName, multi, origin, startThrows, <<>>)

\* makeClaudeLaunchTool.execute, once its guards have passed: the origin is
\* assembled and the session is spawned
Launch(ctx, params) ==
  SpawnFrom(<<"task">>, params.multiTurn, LaunchOrigin(ctx, params), FALSE,
            <<[ctx |-> ctx, params |-> params]>>)

\* The state left by a handler that ran on session id: its fields r, and the
\* manager and router state w.
Commit(id, r, w, op, err) ==
  /\ obj' = [obj EXCEPT ![id] = r]
  /\ persistedSessions' = w.p
  /\ metrics' = w.m
  /\ debounceMap' = w.d
  /\ hist' = w.h
  /\ outbox' = w.o
  /\ UNCHANGED pluginConfig
  /\ last' = [op |-> op, id |-> id, err |-> err, pre |-> obj[id].status]
  /\ UNCHANGED <<sessions, now, stream>>

Event(w, id) == [w EXCEPT !.h[id].events = @ + 1]

Activity(w, id) ==
  [w EXCEPT !.h[id].activity = TRUE, !.h[id].sinceActivity = 0]

\* The engine (external): "preinit" until it acknowledges, then in a "turn";
\* after the successful turn-result of an open multi-turn stream it takes the
\* next queued message or goes "idle"; "closed" once its event sequence ended.
EngineLive(id) ==
  /\ id \in DOMAIN obj
  /\ obj[id].engine \in {"preinit", "turn", "idle"}

\* The engine is in a turn, or idle with a queued message that it takes now.
EngineBusy(id) ==
  /\ id \in DOMAIN obj
  /\ \/ obj[id].engine = "turn"
     \/ obj[id].engine = "idle" /\ obj[id].pending > 0

Taken(r) ==
  IF r.engine = "idle" THEN [r EXCEPT !.engine = "turn", !.pending = @ - 1] ELSE r

AfterResult(r) ==
  IF r.multiTurn /\ ~r.streamDone
  THEN IF r.pending > 0 THEN [r EXCEPT !.engine = "turn", !.pending = @ - 1]
       ELSE [r EXCEPT !.engine = "idle"]
  ELSE [r EXCEPT !.engine = "closed"]

\* Session.consumeMessages, msg.type = "system", subtype = "init"
EngineInit(id, c) ==
  /\ EngineLive(id)
  /\ obj[id].engine = "preinit"
  /\ LET r1 == resetSafetyNetTimer(obj[id])
         r2 == [r1 EXCEPT !.claudeSessionId = c, !.status = "running",
                          !.engine = "turn"]
     IN Commit(id, resetIdleTimer(r2), Event(World, id), "init", FALSE)

\* Mutant of PushOutput: the buffer is never trimmed.
PushOutputNoTrim(buf, text) == Append(buf, text)

\* outputBuffer.push(text) and the trim to OUTPUT_BUFFER_MAX
PushOutput(buf, text) ==
  LET b == Append(buf, text)
  IN IF Len(b) > OUTPUT_BUFFER_MAX
     THEN SubSeq(b, Len(b) - OUTPUT_BUFFER_MAX + 1, Len(b)) ELSE b

\* Session.markFgOutputSeen (and saveFgOutputOffset, which has the same
\* body) for every channel of chs.  seenText observes the last output entry
\* the channel has seen; an output entry is the number of its engine event.
markFgOutputSeen(r, chs) ==
  [r EXCEPT !.fgOutputOffsets =
              [c \in Channels |-> IF c \in chs THEN Len(r.outputBuffer) ELSE @[c]],
            !.seenText =
              [c \in Channels |->
                 IF c \in chs
                 THEN IF r.outputBuffer = <<>> THEN 0
                      ELSE r.outputBuffer[Len(r.outputBuffer)]
                 ELSE @[c]]]

\* Session.getCatchupOutput
getCatchupOutput(r, channelId) ==
  LET lastOffset == r.fgOutputOffsets[channelId]
      available == Len(r.outputBuffer)
  IN IF lastOffset >= available THEN <<>>
     ELSE SubSeq(r.outputBuffer, lastOffset + 1, available)

\* Array.prototype.slice(start) with one argument: a negative start counts
\* from the end, and both ends are clamped.
slice(buf, start) ==
  LET len == Len(buf)
      from == IF start < 0
              THEN (IF len + start < 0 THEN 0 ELSE len + start)
              ELSE (IF start > len THEN len ELSE start)
  IN SubSeq(buf, from + 1, len)

\* Mutant of getOutput: the first entries are returned instead of the last.
getOutputFromStart(r, lines) ==
  IF lines = <<>> THEN r.outputBuffer
  ELSE SubSeq(r.outputBuffer, 1,
              IF lines[1] > Len(r.outputBuffer) THEN Len(r.outputBuffer)
              ELSE lines[1])

\* Session.getOutput; the optional argument is <<>> (omitted) or <<n>>.
getOutput(r, lines) ==
  IF lines = <<>> THEN slice(r.outputBuffer, 0)
  ELSE slice(r.outputBuffer, 0 - lines[1])

\* NotificationRouter.onToolUse
onToolUse(w, r) ==
  Send(flushDebounced(w, r.id, r.foregroundChannels), r.foregroundChannels,
       [kind |-> "tool", sid |-> r.id, body |-> <<>>])

\* One content block of an assistant message; st = [r, w].
ApplyBlock(st, block, text) ==
  IF block = "text"
  THEN LET r1 == [st.r EXCEPT !.outputBuffer = PushOutput(@, text),
                              !.activeSinceArmed = TRUE]
           w1 == [st.w EXCEPT !.h[r1.id].texts = Append(@, text)]
       IN [r |-> markFgOutputSeen(r1, r1.foregroundChannels),
           w |-> onAssistantText(w1, r1, text)]
  ELSE [r |-> [st.r EXCEPT !.activeSinceArmed = TRUE],
        w |-> onToolUse(st.w, st.r)]

RECURSIVE ApplyBlocks(_, _, _)
ApplyBlocks(st, blocks, text) ==
  IF blocks = <<>> THEN st
  ELSE ApplyBlocks(ApplyBlock(st, Head(blocks), text), Tail(blocks), text)

\* Mutant of EngineAssistant: the one-shot flag is left as it is.
EngineAssistantKeepsFlag(id, blocks) ==
  /\ EngineBusy(id)
  /\ LET r1 == resetSafetyNetTimer(Taken(obj[id]))
         st == ApplyBlocks([r |-> r1, w |-> Activity(Event(World, id), id)],
                           blocks, hist[id].events + 1)
     IN Commit(id, st.r, st.w, "assistant", FALSE)

\* Session.consumeMessages, msg.type = "assistant"
EngineAssistant(id, blocks) ==
  /\ EngineBusy(id)
  /\ LET r1 == [resetSafetyNetTimer(Taken(obj[id])) EXCEPT
                  !.waitingForInputFired = FALSE]
         st == ApplyBlocks([r |-> r1, w |-> Activity(Event(World, id), id)],
                           blocks, hist[id].events + 1)
     IN Commit(id, st.r, st.w, "assistant", FALSE)

\* const isMultiTurnEndOfTurn (a MessageStream exists exactly when multiTurn)
isMultiTurnEndOfTurn(r, subtype) == r.multiTurn /\ subtype = "success"

\* Mutant of mayFireWaiting: the one-shot flag is not consulted.
mayFireWaitingAlways(r) == TRUE

\* the guard of both waiting-for-input detection paths
mayFireWaiting(r) == ~r.waitingForInputFired

\* Session.consumeMessages, msg.type = "result", the end-of-turn branch
EndOfTurn(r, w) ==
  LET r1 == resetIdleTimer(clearSafetyNetTimer(r))
  IN IF mayFireWaiting(r1)
     THEN LET r2 == [r1 EXCEPT !.waitingForInputFired = TRUE]
          IN [r |-> r2, w |-> cbOnWaitingForInput(w, r2)]
     ELSE [r |-> r1, w |-> w]

\* Session.consumeMessages, msg.type = "result", the end-of-session branch
EndOfSession(r, w, subtype) ==
  LET r1 == [clearSafetyNetTimer(r) EXCEPT
               !.idleTimer = FALSE,
               !.status = IF subtype = "success" THEN "completed" ELSE "failed",
               !.completedAt = now,
               !.streamDone = IF r.multiTurn THEN TRUE ELSE @]
      r2 == IF subtype = "error_max_budget_usd"
            THEN [r1 EXCEPT !.budgetExhausted = TRUE] ELSE r1
      w1 == IF subtype = "error_max_budget_usd"
            THEN cbOnBudgetExhausted(w, r2) ELSE w
  IN [r |-> r2, w |-> cbOnComplete(w1, r2)]

\* Session.consumeMessages, msg.type = "result"
EngineResult(id, subtype, cost) ==
  /\ EngineBusy(id)
  /\ LET r1 == [resetSafetyNetTimer(Taken(obj[id])) EXCEPT !.costUsd = cost]
         w1 == Event(World, id)
         st == IF isMultiTurnEndOfTurn(r1, subtype) THEN EndOfTurn(r1, w1)
               ELSE EndOfSession(r1, w1, subtype)
     IN Commit(id, AfterResult(st.r), st.w, IF subtype = "success" THEN "result-success"
                               ELSE IF subtype = "error_max_budget_usd"
                               THEN "result-budget" ELSE "result-error", FALSE)

\* Session.consumeMessages, any other message type (a tool result, a
\* partial-message stream event): only the safety-net timer is reset.
EngineOther(id) ==
  /\ EngineBusy(id)
  /\ Commit(id, resetSafetyNetTimer(Taken(obj[id])), Event(World, id), "other", FALSE)

\* The engine's event sequence ends after abort() without a further event.
EngineEnd(id) ==
  /\ EngineLive(id)
  /\ obj[id].aborted
  /\ Commit(id, [obj[id] EXCEPT !.engine = "closed"], World, "engine-end", FALSE)

\* Mutant of EngineThrow: the catch handler overwrites the outcome whatever
\* the status is.
EngineThrowOverwrites(id) ==
  /\ EngineLive(id)
  /\ LET r == [obj[id] EXCEPT !.engine = "closed"]
     IN Commit(id, [r EXCEPT !.status = "failed", !.error = TRUE,
                             !.completedAt = now],
               World, "engine-throw", FALSE)

\* Session.start: consumeMessages(q).catch(...)
EngineThrow(id) ==
  /\ EngineLive(id)
  /\ LET r == [obj[id] EXCEPT !.engine = "closed"]
     IN Commit(id, IF r.status \in Active
                   THEN [r EXCEPT !.status = "failed", !.error = TRUE,
                                  !.completedAt = now]
                   ELSE r, World, "engine-throw", FALSE)

\* Session.resetSafetyNetTimer: the timer callback
SafetyNetExpire(id) ==
  /\ id \in DOMAIN obj
  /\ obj[id].safetyNetTimer
  /\ LET r1 == [obj[id] EXCEPT !.safetyNetTimer = FALSE]
     IN IF r1.status = "running" /\ mayFireWaiting(r1)
        THEN LET r2 == [r1 EXCEPT !.waitingForInputFired = TRUE]
             IN Commit(id, r2, cbOnWaitingForInput(World, r2), "safety-net", FALSE)
        ELSE Commit(id, r1, World, "safety-net", FALSE)

\* Session.resetIdleTimer: the timer callback
IdleExpire(id) ==
  /\ id \in DOMAIN obj
  /\ obj[id].idleTimer
  /\ LET r1 == [obj[id] EXCEPT !.idleTimer = FALSE]
     IN Commit(id, IF r1.status = "running" THEN kill(r1) ELSE r1, World,
               "idle-timeout", FALSE)

\* MessageStream.push, as sendMessage calls it on a multi-turn session (a
\* single-turn session hands the message to the engine's streamInput).
push(r) == IF r.multiTurn THEN [r EXCEPT !.pending = @ + 1] ELSE r

\* Mutant of SendMessage: the one-shot flag is left as it is.
SendMessageKeepsFlag(id) ==
  /\ id \in sessions
  /\ IF obj[id].status # "running"
     THEN Commit(id, obj[id], World, "sendMessage", TRUE)
     ELSE Commit(id, push(resetIdleTimer(obj[id])), Activity(World, id),
                 "sendMessage", FALSE)

\* Mutant of SendMessage: the status is not checked before the message is
\* taken.
SendMessageUnguarded(id) ==
  /\ id \in sessions
  /\ Commit(id, push([resetIdleTimer(obj[id]) EXCEPT
                              !.waitingForInputFired = FALSE]),
            Activity(World, id), "sendMessage", obj[id].status # "running")

\* Session.sendMessage
SendMessage(id) ==
  /\ id \in sessions
  /\ IF obj[id].status # "running"
     THEN Commit(id, obj[id], World, "sendMessage", TRUE)
     ELSE Commit(id, push([resetIdleTimer(obj[id]) EXCEPT
                                 !.waitingForInputFired = FALSE]),
                 Activity(World, id), "sendMessage", FALSE)

\* SessionManager.kill
Kill(id) ==
  /\ id \in sessions
  /\ LET r == kill(obj[id])
         w0 == [World EXCEPT !.h[id].kills = @ + 1]
         w1 == IF ~PHas(w0.p, IdKey(id)) THEN recordSessionMetrics(w0, r) ELSE w0
         w2 == persistSession(w1, r)
         w3 == onSessionComplete(w2, r)
     IN Commit(id, r, triggerAgentEvent(w3, r),
               "kill", FALSE)

\* claude_fg: foregroundChannels.add, markFgOutputSeen
Fg(id, ch) ==
  /\ id \in sessions
  /\ ch \notin obj[id].foregroundChannels
  /\ Commit(id, markFgOutputSeen([obj[id] EXCEPT !.foregroundChannels = @ \cup {ch}],
                                 {ch}), World, "fg", FALSE)

\* claude_bg: saveFgOutputOffset, foregroundChannels.delete
Bg(id, ch) ==
  /\ id \in sessions
  /\ ch \in obj[id].foregroundChannels
  /\ Commit(id, [markFgOutputSeen(obj[id], {ch}) EXCEPT !.foregroundChannels = @ \ {ch}],
            World, "bg", FALSE)

\* Session.markFgOutputSeen / saveFgOutputOffset called for one channel
MarkSeen(id, ch) ==
  /\ id \in sessions
  /\ Commit(id, markFgOutputSeen(obj[id], {ch}), World, "markSeen", FALSE)

\* A read of the output buffer through Session.getOutput (claude_output and
\* the previews of the notifications)
GetOutput(id, lines) ==
  /\ id \in sessions
  /\ last' = [op |-> "getOutput", id |-> id, err |-> FALSE,
              pre |-> obj[id].status, arg |-> lines,
              ret |-> getOutput(obj[id], lines)]
  /\ outbox' = NoOut
  /\ UNCHANGED pluginConfig
  /\ UNCHANGED <<obj, sessions, persistedSessions, metrics, debounceMap, now,
                 stream, hist>>

\* ... sorted by startedAt, newest first (Array.prototype.sort is stable)
RECURSIVE SortByStartedAt(_)
SortByStartedAt(q) ==
  IF q = <<>> THEN <<>>
  ELSE LET rest == SortByStartedAt(SubSeq(q, 1, Len(q) - 1))
           x == q[Len(q)]
           n == Cardinality({i \in 1..Len(rest) :
                               obj[rest[i]].startedAt >= obj[x].startedAt})
       IN SubSeq(rest, 1, n) \o <<x>> \o SubSeq(rest, n + 1, Len(rest))

\* SessionManager.list: the ids of the pooled sessions, in Map order,
\* that pass the status filter ...
list(filter) ==
  LET all == SetToSeq(sessions)
      keep == SetToSeq({i \in 1..Len(all) :
                          filter = "all" \/ obj[all[i]].status = filter})
  IN SortByStartedAt([k \in 1..Len(keep) |-> all[keep[k]]])

\* Mutant of claudeSessions: a session is matched by the destination its
\* own working directory resolves to.
claudeSessionsByWorkdir(ctx, filter) ==
  LET allSessions == list(filter)
      agentChannel == IF ctx.workspaceDir = <<>> THEN NoChannel
                      ELSE resolveAgentChannel(ctx.workspaceDir[1])
      keep == SetToSeq({i \in 1..Len(allSessions) :
                 resolveAgentChannel(obj[allSessions[i]].workdir) = agentChannel})
  IN IF Truthy(agentChannel) THEN [k \in 1..Len(keep) |-> allSessions[keep[k]]]
     ELSE allSessions

\* makeClaudeSessionsTool.execute: the sessions it lists
claudeSessions(ctx, filter) ==
  LET allSessions == list(filter)
      agentChannel == IF ctx.workspaceDir = <<>> THEN NoChannel
                      ELSE resolveAgentChannel(ctx.workspaceDir[1])
      keep == SetToSeq({i \in 1..Len(allSessions) :
                          obj[allSessions[i]].originChannel = agentChannel})
  IN IF Truthy(agentChannel) THEN [k \in 1..Len(keep) |-> allSessions[keep[k]]]
     ELSE allSessions

\* A call of claude_sessions
ClaudeSessions(ctx, filter) ==
  /\ last' = [op |-> "claude_sessions", id |-> 0, err |-> FALSE, pre |-> "",
              arg |-> [ctx |-> ctx, filter |-> filter],
              ret |-> claudeSessions(ctx, filter)]
  /\ outbox' = NoOut
  /\ UNCHANGED <<obj, sessions, persistedSessions, metrics, debounceMap, now,
                 stream, pluginConfig, hist>>

\* SessionManager.resolve: the pooled session with that id, else the first
\* pooled session (in insertion order) with that name; <<>> when none.
resolve(idOrName) ==
  IF \E s \in sessions : IdKey(s) = idOrName
  THEN <<CHOOSE s \in sessions : IdKey(s) = idOrName>>
  ELSE IF \E s \in sessions : NameKey(obj[s].name) = idOrName
  THEN <<CHOOSE s \in sessions :
            /\ NameKey(obj[s].name) = idOrName
            /\ \A t \in sessions : NameKey(obj[t].name) = idOrName => s <= t>>
  ELSE <<>>

\* SessionManager.resolveClaudeSessionId; 0 is undefined. The ids the engine
\* hands out are UUIDs, internal ids and names are not.
resolveClaudeSessionId(ref) ==
  LET active == resolve(ref)
  IN IF active # <<>> /\ obj[active[1]].claudeSessionId # 0
     THEN obj[active[1]].claudeSessionId
     ELSE IF PHas(persistedSessions, ref)
             /\ PGet(persistedSessions, ref).claudeSessionId # 0
     THEN PGet(persistedSessions, ref).claudeSessionId
     ELSE IF ref[1] = "claude" THEN ref[2]
     ELSE 0

\* A call of resolveClaudeSessionId (claude_launch with resume_session_id,
\* /claude_resume)
ResolveClaudeSessionId(ref) ==
  /\ last' = [op |-> "resolveClaudeSessionId", id |-> 0, err |-> FALSE, pre |-> "",
              arg |-> ref, ret |-> resolveClaudeSessionId(ref)]
  /\ outbox' = NoOut
  /\ UNCHANGED <<obj, sessions, persistedSessions, metrics, debounceMap, now,
                 stream, pluginConfig, hist>>

\* setPluginConfig, called when the service starts
SetPluginConfig(config) ==
  /\ obj = <<>>
  /\ pluginConfig' = config
  /\ last' = [op |-> "setPluginConfig", id |-> 0, err |-> FALSE, pre |-> ""]
  /\ outbox' = NoOut
  /\ UNCHANGED <<obj, sessions, persistedSessions, metrics, debounceMap, now,
                 stream, hist>>

\* A call of resolveAgentChannel(workdir)
ResolveAgentChannel(workdir) ==
  /\ last' = [op |-> "resolveAgentChannel", id |-> 0, err |-> FALSE, pre |-> "",
              arg |-> workdir, ret |-> resolveAgentChannel(workdir)]
  /\ outbox' = NoOut
  /\ UNCHANGED <<obj, sessions, persistedSessions, metrics, debounceMap, now,
                 stream, pluginConfig, hist>>

\* NotificationRouter.appendDebounced: the timer callback
DebounceExpire(id, ch) ==
  /\ <<id, ch>> \in DOMAIN debounceMap
  /\ Commit(id, obj[id], flushDebounced(World, id, {ch}), "debounce", FALSE)

\* NotificationRouter.debounceKey: `${sessionId}|${channelId}`, as tokens
debounceKey(sessionId, channelId) ==
  <<ToString(sessionId), "|">> \o Tokens(channelId)

\* NotificationRouter.stop: key.split("|", 2)[1], the destination it sends to
stopChannel(key) ==
  LET parts == splitTokens(debounceKey(key[1], key[2]), "|")
  IN Str(parts[2])

\* NotificationRouter.stop: every non-empty buffer is sent and the map is
\* cleared, which cancels the timers. (Deliveries to one destination are
\* listed in a chosen order; the Map's own order is not kept.)
Stop ==
  /\ outbox' =
       [c \in Dests |->
          LET ks == {k \in DOMAIN debounceMap :
                       debounceMap[k] # <<>> /\ stopChannel(k) = c}
              keys == CHOOSE q \in [1..Cardinality(ks) -> ks] :
                         \A i, j \in 1..Cardinality(ks) : i # j => q[i] # q[j]
          IN [n \in 1..Len(keys) |->
                [kind |-> "text", sid |-> keys[n][1], body |-> debounceMap[keys[n]]]]]
  /\ debounceMap' = <<>>
  /\ last' = [op |-> "stop", id |-> 0, err |-> FALSE, pre |-> ""]
  /\ UNCHANGED <<obj, sessions, persistedSessions, metrics, now, stream,
                 pluginConfig, hist>>

\* SessionManager.listPersistedSessions: the first entry of each correlation
\* id, in Map order ...
Dedup(p) ==
  LET keep == {i \in 1..Len(p) :
                 \A j \in 1..(i - 1) :
                    p[j].info.claudeSessionId # p[i].info.claudeSessionId}
      idx == SetToSeq(keep)
  IN [k \in 1..Len(idx) |-> p[idx[k]].info]

\* ... sorted newest first (Array.prototype.sort is stable)
RECURSIVE SortNewestFirst(_)
SortNewestFirst(q) ==
  IF q = <<>> THEN <<>>
  ELSE LET rest == SortNewestFirst(SubSeq(q, 1, Len(q) - 1))
           x == q[Len(q)]
           n == Cardinality({i \in 1..Len(rest) : rest[i].completedAt >= x.completedAt})
       IN SubSeq(rest, 1, n) \o <<x>> \o SubSeq(rest, n + 1, Len(rest))

listPersistedSessions(p) == SortNewestFirst(Dedup(p))

SelectSeq2(p, evicted) ==
  LET keep == SetToSeq({i \in 1..Len(p) : p[i].info.claudeSessionId \notin evicted})
  IN [k \in 1..Len(keep) |-> p[keep[k]]]

\* SessionManager.cleanup: the eviction of persisted sessions over the cap
evictPersisted(p) ==
  LET unique == listPersistedSessions(p)
  IN IF Len(unique) > maxPersistedSessions
     THEN LET toEvict == {unique[i].claudeSessionId :
                            i \in (maxPersistedSessions + 1)..Len(unique)}
          IN SelectSeq2(p, toEvict)
     ELSE p

Expired(r) ==
  /\ r.completedAt # 0
  /\ r.status \in Terminal
  /\ now - r.completedAt > CLEANUP_MAX_AGE_MS

\* Mutant of PersistAll: the expired sessions are not persisted.
PersistNone(w, ids) == w

\* SessionManager.cleanup: persistSession for every expired session
RECURSIVE PersistAll(_, _)
PersistAll(w, ids) ==
  IF ids = <<>> THEN w
  ELSE PersistAll(persistSession(w, obj[Head(ids)]), Tail(ids))

\* SessionManager.cleanup
Cleanup ==
  LET gone == {id \in sessions : Expired(obj[id])}
      w1 == PersistAll(World, SetToSeq(gone))
      w2 == [w1 EXCEPT !.p = evictPersisted(@)]
  IN /\ (gone # {} \/ w2.p # persistedSessions)
     /\ sessions' = sessions \ gone
     /\ persistedSessions' = w2.p
     /\ metrics' = w2.m
     /\ hist' = w2.h
     /\ last' = [op |-> "cleanup", id |-> 0, err |-> FALSE, pre |-> ""]
     /\ outbox' = NoOut
     /\ UNCHANGED pluginConfig
     /\ UNCHANGED <<obj, debounceMap, now, stream>>

Tick ==
  /\ now' = now + TickMs
  /\ last' = [op |-> "tick", id |-> 0, err |-> FALSE, pre |-> ""]
  /\ outbox' = NoOut
  /\ UNCHANGED pluginConfig
  /\ UNCHANGED <<obj, sessions, persistedSessions, metrics, debounceMap,
                 stream, hist>>

Costs == {1}
Origins == Channels \cup {NoChannel}

\* ------------------------------------------------------- specifications
\* Bounds on the unbounded inputs: objects constructed, engine events per
\* session, SessionManager.kill calls per session, clock advances.
CanSpawn(n) == Len(obj) < n
CanEvent(id, n) == id \in DOMAIN hist /\ hist[id].events < n
CanKill(id, n) == id \in DOMAIN hist /\ hist[id].kills < n
CanTick(n) == now < TickMs * (n + 1)
CanSend(id, n) == id \in DOMAIN obj /\ obj[id].pending < n

\* The correlation id the engine acknowledges with: a fresh one, or the one
\* of an earlier session (a resume).
InitIds(id) == {c \in ClaudeIds : c <= id}

\* The pool: NumIds single-turn sessions under the concurrency cap, all
\* background, driven by spawn, engine events, kill, cleanup and the clock.
Next ==
  \/ \E t \in BOOLEAN :
        CanSpawn(NumIds) /\ Spawn(<<"task">>, FALSE, "telegram:1", t)
  \/ \E id \in Ids : \E c \in InitIds(id) :
        CanEvent(id, MaxEvents) /\ EngineInit(id, c)
  \/ \E id \in Ids, st \in Subtypes, c \in Costs :
        CanEvent(id, MaxEvents) /\ EngineResult(id, st, c)
  \/ \E id \in Ids : EngineEnd(id)
  \/ \E id \in Ids : EngineThrow(id)
  \/ \E id \in Ids : CanSend(id, MaxPending) /\ SendMessage(id)
  \/ \E id \in Ids : CanKill(id, MaxKills) /\ Kill(id)
  \/ Cleanup
  \/ CanTick(MaxTicks) /\ Tick

Spec == Init /\ [][Next]_vars

\* One session, one channel that foregrounds and backgrounds it.
NextSession ==
  \/ \E m \in BOOLEAN, o \in Origins, t \in BOOLEAN :
        CanSpawn(1) /\ Spawn(<<"task">>, m, o, t)
  \/ CanEvent(1, SessionEvents) /\ EngineInit(1, 1)
  \/ \E bl \in BlockLists :
        CanEvent(1, SessionEvents) /\ EngineAssistant(1, bl)
  \/ \E st \in Subtypes, c \in Costs :
        CanEvent(1, SessionEvents) /\ EngineResult(1, st, c)
  \/ CanEvent(1, SessionEvents) /\ EngineOther(1)
  \/ EngineEnd(1)
  \/ EngineThrow(1)
  \/ SafetyNetExpire(1)
  \/ IdleExpire(1)
  \/ CanSend(1, MaxPending) /\ SendMessage(1)
  \/ CanKill(1, SessionKills) /\ Kill(1)
  \/ Fg(1, "telegram:2")
  \/ Bg(1, "telegram:2")

SpecSession == Init /\ [][NextSession]_vars

\* The same session with its timers: an armed timer fires unless it is
\* cleared first.
SpecSessionFair ==
  SpecSession /\ WF_vars(SafetyNetExpire(1)) /\ WF_vars(IdleExpire(1))

\* Content blocks of one assistant message in the router specification.
RouterBlocks == {<<"text">>, <<"tool_use">>, <<"text", "tool_use">>}

\* One session and one destination that foregrounds and backgrounds it, with
\* the debounce timer.
NextRouter ==
  \/ \E m \in BOOLEAN, o \in Origins :
        CanSpawn(1) /\ Spawn(<<"task">>, m, o, FALSE)
  \/ CanEvent(1, SessionEvents) /\ EngineInit(1, 1)
  \/ \E bl \in RouterBlocks :
        CanEvent(1, SessionEvents) /\ EngineAssistant(1, bl)
  \/ \E st \in Subtypes, c \in Costs :
        CanEvent(1, SessionEvents) /\ EngineResult(1, st, c)
  \/ SafetyNetExpire(1)
  \/ CanKill(1, SessionKills) /\ Kill(1)
  \/ Fg(1, "telegram:2")
  \/ Bg(1, "telegram:2")
  \/ DebounceExpire(1, "telegram:2")

SpecRouter == Init /\ [][NextRouter]_vars

\* The same with the debounce timer: a timer that stays armed fires.
SpecRouterFair == SpecRouter /\ WF_vars(DebounceExpire(1, "telegram:2"))

\* Output events of one background session up to a little over the output
\* buffer's capacity, with a destination that marks the output seen.
MaxOutputs == OUTPUT_BUFFER_MAX + ExtraOutputs

\* Arguments of getOutput: omitted, or a count around the ends of the range.
Lines == {<<>>} \cup {<<n>> : n \in {0, 1, 2, OUTPUT_BUFFER_MAX, OUTPUT_BUFFER_MAX + 1}}

NextBuffer ==
  \/ CanSpawn(1) /\ Spawn(<<"task">>, FALSE, "telegram:1", FALSE)
  \/ EngineInit(1, 1)
  \/ CanEvent(1, MaxOutputs) /\ EngineAssistant(1, <<"text">>)
  \/ MarkSeen(1, "telegram:2")
  \/ \E lines \in Lines : GetOutput(1, lines)

SpecBuffer == Init /\ [][NextBuffer]_vars

\* Directories of the agentChannels table and workspace paths looked up:
\* /a, /a/, /a/b, /a/b/, /ab and /c.
TableDirs == {<<"/", "a">>, <<"/", "a", "/">>, <<"/", "a", "/", "b">>}
Workdirs == {<<"/", "a">>, <<"/", "a", "/", "b">>, <<"/", "a", "/", "b", "/">>,
             <<"/", "a", "b">>, <<"/", "c">>}
TableEntries == [dir : TableDirs, channel : Channels]

\* agentChannels tables of n entries: the keys of an object are distinct
Tables(n) ==
  {t \in [1..n -> TableEntries] : \A i, j \in 1..n : i # j => t[i].dir # t[j].dir}

ResolveConfigs ==
  {DefaultConfig} \cup
  {[agentChannels |-> <<t>>, fallbackChannel |-> <<>>] :
     t \in UNION {Tables(n) : n \in 0..MaxTable}}

\* The workspace lookup: the configuration is set when the service starts,
\* and paths are looked up in it.
NextResolve ==
  \/ \E config \in ResolveConfigs : SetPluginConfig(config)
  \/ \E workdir \in Workdirs : ResolveAgentChannel(workdir)

SpecResolve == Init /\ [][NextResolve]_vars

\* What the tool factory and the call give claude_launch: the workspace /a,
\* a bare or a two-segment messageChannel, an account id, the workdir /a/b
\* or /c.
LaunchCtxs ==
  [workspaceDir : {<<>>, <<(<<"/", "a">>)>>},
   messageChannel : {NoChannel, "telegram", "telegram|1"},
   agentAccountId : {NoChannel, "bot"}]
LaunchParams ==
  [workdir : {<<>>, <<(<<"/", "a", "/", "b">>)>>, <<(<<"/", "c">>)>>}, cwd : {Cwd},
   toolCallId : {"toolu_1"}, multiTurn : {FALSE}]

\* agentChannels maps /a to telegram:1; fallbackChannel is absent,
\* telegram:2 or the empty string.
LaunchConfigs ==
  [agentChannels : {<<>>, <<(<<[dir |-> <<"/", "a">>, channel |-> "telegram:1"]>>)>>},
   fallbackChannel : {<<>>, <<"telegram:2">>, <<"">>}]

\* The callers of claude_sessions and its status parameter.
SessionsCtxs == [workspaceDir : {<<>>, <<(<<"/", "a">>)>>, <<(<<"/", "c">>)>>}]
Filters == {"all", "running", "completed"}

\* Sessions launched through claude_launch and run to their end.
NextLaunch ==
  \/ \E config \in LaunchConfigs : SetPluginConfig(config)
  \/ \E ctx \in LaunchCtxs, params \in LaunchParams :
       CanSpawn(NumIds) /\ Launch(ctx, params)
  \/ \E id \in Ids : \E c \in InitIds(id) : EngineInit(id, c)
  \/ \E id \in Ids, cost \in Costs :
       CanEvent(id, MaxEvents) /\ EngineResult(id, "success", cost)
  \/ \E id \in Ids : CanKill(id, MaxKills) /\ Kill(id)
  \/ \E ctx \in SessionsCtxs, filter \in Filters : ClaudeSessions(ctx, filter)

SpecLaunch == Init /\ [][NextLaunch]_vars

\* Names asked for: "task" and "task-2".
BaseNames == {<<"task">>, <<"task", 2>>}

\* The pool's names: sessions are spawned under the requested names, killed,
\* and removed by cleanup once the retention window has passed.
NextNames ==
  \/ \E b \in BaseNames :
        CanSpawn(NumIds + 1) /\ Spawn(b, FALSE, "telegram:1", FALSE)
  \/ \E id \in 1..(NumIds + 1) : CanKill(id, MaxKills) /\ Kill(id)
  \/ Cleanup
  \/ CanTick(MaxTicks) /\ Tick

SpecNames == Init /\ [][NextNames]_vars

\* ------------------------------------------------------ MessageStream
Texts == {"a", "b"}

StreamStep(s, op) ==
  /\ stream' = s
  /\ last' = [op |-> op, id |-> 0, err |-> FALSE, pre |-> ""]
  /\ outbox' = NoOut
  /\ UNCHANGED pluginConfig
  /\ UNCHANGED <<obj, sessions, persistedSessions, metrics, debounceMap, now, hist>>

\* if (this.resolve) { this.resolve(); this.resolve = null; }
Wake(s) == IF s.resolve THEN [s EXCEPT !.resolve = FALSE, !.woken = TRUE] ELSE s

\* Mutant of StreamPush: the suspended consumer is not woken.
StreamPushNoWake(text) ==
  StreamStep([stream EXCEPT !.queue = Append(@, text),
                            !.pushed = Append(@, text)], "push")

\* MessageStream.push
StreamPush(text) ==
  StreamStep(Wake([stream EXCEPT !.queue = Append(@, text),
                                 !.pushed = Append(@, text)]), "push")

\* Mutant of StreamEnd: the suspended consumer is not woken.
StreamEndNoWake ==
  StreamStep([stream EXCEPT !.done = TRUE,
                            !.atEnd = IF stream.done THEN @ ELSE Len(stream.pushed)],
             "end")

\* MessageStream.end
StreamEnd ==
  StreamStep(Wake([stream EXCEPT !.done = TRUE,
                                 !.atEnd = IF stream.done THEN @
                                           ELSE Len(stream.pushed)]), "end")

\* The generator body from the top of its loop to the next yield, return or
\* await.
RunBody(s) ==
  IF s.queue # <<>>
  THEN [s EXCEPT !.queue = Tail(@), !.yielded = Append(@, Head(s.queue)),
                 !.pc = "idle"]
  ELSE IF s.done THEN [s EXCEPT !.pc = "returned"]
  ELSE [s EXCEPT !.resolve = TRUE, !.pc = "await"]

\* The consumer calls next() on the iterator (for await).
ConsumerNext ==
  /\ stream.pc = "idle"
  /\ StreamStep(RunBody(stream), "next")

\* The awaited promise was resolved: the generator continues.
ConsumerResume ==
  /\ stream.pc = "await" /\ stream.woken
  /\ StreamStep(RunBody([stream EXCEPT !.woken = FALSE]), "resume")

NextStream ==
  \/ \E x \in Texts : Len(stream.pushed) < MaxPush /\ StreamPush(x)
  \/ ~stream.done /\ StreamEnd
  \/ ConsumerNext
  \/ ConsumerResume

\* One producer and one consumer; the consumer keeps iterating and the
\* runtime runs a resolved continuation.
SpecStream ==
  Init /\ [][NextStream]_vars /\ WF_vars(ConsumerNext) /\ WF_vars(ConsumerResume)

\* One session, run to a wake: the end of a turn, the safety net, the end of
\* the session, a kill. Its origin is one a session can be given through
\* agentChannels, fallbackChannel or the channel parameter: one, two and
\* three segments, with and without empty segments, the other separator, the
\* sentinel and none.
NextWake ==
  \/ \E m \in BOOLEAN,
          o \in {NoChannel, Unknown, "telegram", "telegram:1", "telegram:",
                 "telegram:bot:1", "telegram::", "telegram|bot|1"} :
        CanSpawn(1) /\ Spawn(<<"task">>, m, o, FALSE)
  \/ CanEvent(1, SessionEvents) /\ EngineInit(1, 1)
  \/ \E st \in Subtypes, c \in Costs :
        CanEvent(1, SessionEvents) /\ EngineResult(1, st, c)
  \/ SafetyNetExpire(1)
  \/ CanSend(1, MaxPending) /\ SendMessage(1)
  \/ CanKill(1, SessionKills) /\ Kill(1)

SpecWake == Init /\ [][NextWake]_vars

\* The pool with its index, and references resolved against them: internal
\* ids, correlation ids, names (given and suffixed, and one no session has).
NextResume ==
  \/ CanSpawn(NumIds) /\ Spawn(<<"task">>, FALSE, "telegram:1", FALSE)
  \/ \E id \in Ids : \E c \in InitIds(id) :
        CanEvent(id, MaxEvents) /\ EngineInit(id, c)
  \/ \E id \in Ids, c \in Costs :
        CanEvent(id, MaxEvents) /\ EngineResult(id, "success", c)
  \/ \E id \in Ids : CanKill(id, MaxKills) /\ Kill(id)
  \/ Cleanup
  \/ CanTick(MaxTicks) /\ Tick
  \/ \E ref \in {IdKey(id) : id \in Ids} \cup {ClaudeKey(c) : c \in ClaudeIds}
                 \cup {NameKey(nm) : nm \in {<<"task">>, Suffixed(<<"task">>, 2),
                                             <<"other">>}} :
        ResolveClaudeSessionId(ref)

SpecResume == Init /\ [][NextResume]_vars

\* One session streamed to its foreground conversations until the router is
\* stopped. The conversations: two- and three-segment destinations and one in
\* the channel|account|chat format of agentChannels.
NextStop ==
  \/ CanSpawn(1) /\ Spawn(<<"task">>, FALSE, "telegram:1", FALSE)
  \/ CanEvent(1, SessionEvents) /\ EngineInit(1, 1)
  \/ \E bl \in RouterBlocks :
        CanEvent(1, SessionEvents) /\ EngineAssistant(1, bl)
  \/ \E c \in {"telegram:2", "telegram:bot:1", "telegram|bot|1"} :
        \/ Fg(1, c)
        \/ Bg(1, c)
        \/ DebounceExpire(1, c)
  \/ Stop

SpecStop == Init /\ [][NextStop]_vars

\* ------------------------------------------------------------- claims
PooledActive ==
  Cardinality({s \in sessions : obj[s].status \in {"starting", "running"}})

Fires(h, what) == Len(SelectSeq(h.cb, LAMBDA x : x = what))

\* C1: in every reachable state the number of pooled sessions whose status
\* is starting or running is at most maxSessions.
C1_ActiveWithinCap == PooledActive <= maxSessions

\* C2: a session's status only moves starting -> running -> {completed,
\* failed, killed} (starting may go directly to failed or killed), and a
\* terminal status never changes again.
C2_StatusForward ==
  [][\A id \in DOMAIN obj :
       LET a == obj[id].status
           b == obj'[id].status
       IN \/ a = b
          \/ a = "starting" /\ b \in {"running", "failed", "killed"}
          \/ a = "running" /\ b \in Terminal]_vars

\* C3: spawn while the active count is at or above the cap throws the
\* capacity error and leaves the pool, the names, every metric, the
\* persisted index and the router untouched; no Session is constructed and
\* no callback runs.
C3_CapacityErrorMutatesNothing ==
  [][(PooledActive >= maxSessions /\ last'.op = "spawn") =>
       /\ last'.err
       /\ UNCHANGED <<obj, sessions, persistedSessions, metrics, debounceMap, hist>>]_vars

C3_Witness ==
  /\ last.op = "spawn" /\ last.err
  /\ \E s \in sessions : obj[s].status = "starting"

\* C4: recordSessionMetrics runs at most once for every session, whatever
\* combination of the completion callback, SessionManager.kill and cleanup
\* processes it.
C4_MetricsRecordedOnce == \A id \in DOMAIN hist : hist[id].recorded <= 1

\* C5: SessionManager.kill on a session that is already completed, failed
\* or killed is a no-op: no further completion notification, no further
\* wake, no further metrics, and status, completion time and persisted
\* snapshot stay as they were.
C5_KillTerminalIsNoOp ==
  [][(last'.op = "kill" /\ last'.pre \in Terminal) =>
       /\ obj' = obj
       /\ persistedSessions' = persistedSessions
       /\ metrics' = metrics
       /\ hist'[last'.id].complete = hist[last'.id].complete
       /\ hist'[last'.id].wakes = hist[last'.id].wakes
       /\ hist'[last'.id].recorded = hist[last'.id].recorded]_vars

ResultOps == {"result-success", "result-budget", "result-error"}

\* C6: waiting-for-input fires at most once per idle period: whenever the
\* callback fires, by the end-of-turn path or by the safety-net timer, an
\* assistant message or a sendMessage has happened since its previous
\* firing, and one step fires it at most once.
C6_OncePerIdlePeriod ==
  [][\A id \in DOMAIN hist :
       Fires(hist'[id], "waiting") > Fires(hist[id], "waiting") =>
         /\ Fires(hist'[id], "waiting") = Fires(hist[id], "waiting") + 1
         /\ hist[id].activity]_vars

C6_Witness ==
  /\ 1 \in DOMAIN hist
  /\ Fires(hist[1], "waiting") = 2
  /\ last.op = "safety-net"

\* C7 as stated: after waiting-for-input has fired, every engine event (init,
\* assistant message, turn-result) and every sendMessage that leaves the
\* session running either clears the one-shot flag or fires the callback.
C7_AnyEventClears ==
  [][\A id \in DOMAIN obj :
       ( /\ obj[id].waitingForInputFired
         /\ obj'[id].status = "running"
         /\ \/ hist'[id].events = hist[id].events + 1
            \/ last'.op = "sendMessage" /\ last'.id = id /\ ~last'.err )
       => \/ ~obj'[id].waitingForInputFired
          \/ Fires(hist'[id], "waiting") > Fires(hist[id], "waiting")]_vars

\* C7 amended: an assistant message (output text or tool-use) and a
\* successful sendMessage clear the one-shot flag, and with the flag clear
\* the next successful turn-result of a running multi-turn session and the
\* next safety-net expiry of a running session fire the callback; an init
\* or a turn-result does not clear the flag.
C7_OutputOrSendClears ==
  [][\A id \in DOMAIN obj :
       /\ ( /\ last'.id = id /\ ~last'.err
            /\ last'.op \in {"assistant", "sendMessage"} )
          => ~obj'[id].waitingForInputFired
       /\ ( /\ last'.id = id
            /\ ~obj[id].waitingForInputFired
            /\ obj[id].status = "running"
            /\ \/ last'.op = "safety-net"
               \/ last'.op = "result-success" /\ obj[id].multiTurn )
          => Fires(hist'[id], "waiting") = Fires(hist[id], "waiting") + 1
       /\ ( /\ last'.id = id
            /\ obj[id].waitingForInputFired
            /\ last'.op \in ResultOps \cup {"init"} )
          => obj'[id].waitingForInputFired]_vars

C7_Witness ==
  /\ last.op = "assistant"
  /\ Fires(hist[1], "waiting") = 1
  /\ ~obj[1].waitingForInputFired
  /\ obj[1].status = "running"

\* C8 as stated: every successful turn-result of a running multi-turn
\* session leaves it running and fires waiting-for-input exactly once.
C8_ResultFiresOnce ==
  [][\A id \in DOMAIN obj :
       ( /\ last'.op = "result-success" /\ last'.id = id
         /\ obj[id].multiTurn /\ obj[id].status = "running" )
       => /\ obj'[id].status = "running"
          /\ Fires(hist'[id], "waiting") = Fires(hist[id], "waiting") + 1]_vars

\* C8 amended: a successful turn-result of a running multi-turn session
\* leaves it running, and waiting-for-input has then fired exactly once since
\* the last assistant message or sendMessage: by the turn-result itself,
\* unless the safety-net timer already fired in that period.  A successful
\* sendMessage starts a new period.
C8_OncePerTurn ==
  [][\A id \in DOMAIN obj :
       /\ ( /\ last'.op = "result-success" /\ last'.id = id
            /\ obj[id].multiTurn /\ obj[id].status = "running" )
          => /\ obj'[id].status = "running"
             /\ hist'[id].sinceActivity = 1
             /\ Fires(hist'[id], "waiting") =
                  Fires(hist[id], "waiting") + (1 - hist[id].sinceActivity)
       /\ ( last'.op = "sendMessage" /\ last'.id = id /\ ~last'.err )
          => hist'[id].sinceActivity = 0]_vars

C8_Witness ==
  /\ last.op = "result-success" /\ last.pre = "running"
  /\ obj[1].multiTurn /\ obj[1].status = "running"
  /\ hist[1].events = 3
  /\ hist[1].cb = <<"waiting", "waiting">>

\* C9: a turn-result on a running session leaves a multi-turn session
\* running with its Message Stream open when the result is success;
\* otherwise the status becomes completed for success and failed for every
\* other subtype, the Message Stream is ended and the completion callback
\* fires exactly once.
C9_TurnResult ==
  [][\A id \in DOMAIN obj :
       ( last'.op \in ResultOps /\ last'.id = id /\ obj[id].status = "running" )
       => IF obj[id].multiTurn /\ last'.op = "result-success"
          THEN /\ obj'[id].status = "running"
               /\ ~obj'[id].streamDone
               /\ Fires(hist'[id], "complete") = Fires(hist[id], "complete")
          ELSE /\ obj'[id].status =
                    (IF last'.op = "result-success" THEN "completed" ELSE "failed")
               /\ obj[id].multiTurn => obj'[id].streamDone
               /\ Fires(hist'[id], "complete") = Fires(hist[id], "complete") + 1]_vars

\* C10: a budget-exhaustion turn-result on a running session makes it
\* failed, fires the budget callback once and then the completion callback
\* once, and every destination (foreground or origin) receives exactly one
\* terminal notification, the budget one, and no completion message.
C10_BudgetExhaustion ==
  [][\A id \in DOMAIN obj :
       ( last'.op = "result-budget" /\ last'.id = id /\ obj[id].status = "running" )
       => /\ obj'[id].status = "failed"
          /\ hist'[id].cb = hist[id].cb \o <<"budget", "complete">>
          /\ hist'[id].complete = hist[id].complete
          /\ \A c \in DOMAIN hist[id].budget :
               hist'[id].budget[c] =
                 hist[id].budget[c] + (IF c \in NotifyChannels(obj[id]) THEN 1 ELSE 0)]_vars

C10_Witness ==
  /\ last.op = "result-budget" /\ last.pre = "running"
  /\ obj[1].foregroundChannels = {"telegram:2"}
  /\ obj[1].originChannel = "telegram:1"
  /\ hist[1].budget["telegram:1"] = 1 /\ hist[1].budget["telegram:2"] = 1

IsPrefix(a, b) == Len(a) <= Len(b) /\ SubSeq(b, 1, Len(a)) = a

\* C11: under every interleaving of push, end and consumer steps the
\* messages yielded are a prefix of the messages pushed (push order, no
\* duplicate), what is neither yielded nor queued is nothing (no loss), a
\* consumer suspended while a message is queued has been woken, and a
\* consumer that has terminated has been yielded every message pushed
\* before end().
C11_StreamExactlyOnceInOrder ==
  /\ IsPrefix(stream.yielded, stream.pushed)
  /\ stream.pc # "returned" => stream.yielded \o stream.queue = stream.pushed
  /\ (stream.pc = "await" /\ stream.queue # <<>>) => stream.woken
  /\ stream.pc = "returned" =>
       /\ stream.done
       /\ IsPrefix(SubSeq(stream.pushed, 1, stream.atEnd), stream.yielded)

C11_Witness ==
  /\ last.op = "resume"
  /\ stream.pc = "returned"
  /\ stream.atEnd = 2
  /\ stream.yielded = <<"a", "b">>

\* C12: after end() the consumer does not stay suspended: it is woken,
\* yields what is queued and terminates; once it has terminated nothing is
\* yielded any more, whatever is pushed afterwards.
C12_EndTerminates ==
  /\ stream.done ~> stream.pc = "returned"
  /\ [][stream.pc = "returned" =>
          stream'.pc = "returned" /\ stream'.yielded = stream.yielded]_vars

C12_Witness ==
  /\ stream.pc = "returned"
  /\ last.op = "push"
  /\ stream.yielded = <<"a">>
  /\ Len(stream.pushed) = 2

\* What the step just taken delivered to destination c for session id.
OutFor(out, id, c) == SelectSeq(out[c], LAMBDA x : x.sid = id)

\* The text waiting in the debounce buffer of session id and destination c.
Pending(d, id, c) == IF <<id, c>> \in DOMAIN d THEN d[<<id, c>>] ELSE <<>>

\* C13: whenever a step delivers something of a session to a destination,
\* the text waiting in that destination's debounce buffer is delivered first
\* and in arrival order, and after a tool indicator, waiting-for-input or
\* terminal message no earlier text is left waiting.
C13_TextBeforeLaterMessages ==
  [][\A id \in DOMAIN obj : \A c \in Channels :
       LET out == OutFor(outbox', id, c)
           pre == Pending(debounceMap, id, c)
       IN out # <<>> =>
            /\ pre # <<>> => out[1].kind = "text" /\ IsPrefix(pre, out[1].body)
            /\ out[Len(out)].kind # "text" =>
                  Pending(debounceMap', id, c) = <<>>]_vars

\* C14: every streamed text and every tool indicator of a session is
\* delivered to a destination that is in the session's foreground set at
\* that moment.
C14_StreamOnlyToForeground ==
  [][\A id \in DOMAIN obj : \A c \in Channels :
       \A k \in 1..Len(outbox'[c]) :
          (outbox'[c][k].sid = id /\ outbox'[c][k].kind \in {"text", "tool"})
          => c \in obj[id].foregroundChannels]_vars

\* C15: over a session's lifetime every destination receives at most one
\* terminal notification (completion or budget) for it.
C15_OneTerminalNotification ==
  \A id \in DOMAIN hist : \A c \in Channels :
     hist[id].complete[c] + hist[id].budget[c] <= 1

\* C16: for a destination that has marked the output seen, as long as fewer
\* entries than the buffer holds have arrived since, getCatchupOutput
\* returns exactly the entries that arrived since, in arrival order (none
\* immediately after the mark), whatever the buffer held at the mark.
C16_CatchupExact ==
  \A id \in DOMAIN obj : \A c \in Channels :
     LET r == obj[id]
     IN ( \/ Len(r.outputBuffer) < OUTPUT_BUFFER_MAX
          \/ \E i \in 1..Len(r.outputBuffer) : r.outputBuffer[i] <= r.seenText[c] )
        => getCatchupOutput(r, c) =
             SelectSeq(r.outputBuffer, LAMBDA x : x > r.seenText[c])

\* SessionManager.getPersistedSession(ref) returns this snapshot.
Resolves(p, key, info) == PHas(p, key) /\ PGet(p, key) = info

\* C17: when a session that has a correlation id becomes or is terminal by
\* a step that runs the completion callback or SessionManager.kill, the
\* persisted index then maps its internal id, its name and its correlation
\* id to one snapshot, which carries the session's status, cost and
\* completion time.
C17_ThreeKeysOneSnapshot ==
  [][\A id \in DOMAIN obj :
       ( /\ last'.id = id
         /\ \/ last'.op = "kill"
            \/ Fires(hist'[id], "complete") > Fires(hist[id], "complete")
         /\ obj'[id].status \in Terminal
         /\ obj'[id].claudeSessionId # 0 )
       => LET r == obj'[id]
              info == PersistedInfo(r)
          IN /\ Resolves(persistedSessions', IdKey(id), info)
             /\ Resolves(persistedSessions', NameKey(r.name), info)
             /\ Resolves(persistedSessions', ClaudeKey(r.claudeSessionId), info)
             /\ info.status = r.status /\ info.costUsd = r.costUsd
             /\ info.completedAt = r.completedAt]_vars

C17_Witness ==
  /\ last.op = "kill" /\ last.pre = "running" /\ last.id = 2
  /\ obj[2].claudeSessionId = 1
  /\ obj[1].claudeSessionId = 1 /\ obj[1].status = "completed"
  /\ Resolves(persistedSessions, ClaudeKey(1), PersistedInfo(obj[2]))

\* C18: in every reachable state the persisted snapshots, counted once per
\* correlation id, are at most maxPersistedSessions.
C18_PersistedWithinCap ==
  Len(listPersistedSessions(persistedSessions)) <= maxPersistedSessions

\* C19: the names of the pooled sessions are pairwise distinct, and a spawn
\* gives the new session the requested name when no pooled session holds it,
\* and otherwise that name with the suffix -k, k the smallest integer >= 2
\* for which no pooled session holds the suffixed name.
C19_UniqueNames ==
  [][/\ \A a, b \in sessions' : obj'[a].name = obj'[b].name => a = b
     /\ (last'.op = "spawn" /\ ~last'.err) =>
          LET existing == {obj[s].name : s \in sessions}
              base == hist'[last'.id].requested
              nm == obj'[last'.id].name
          IN IF base \notin existing THEN nm = base
             ELSE \E k \in 2..(Len(obj) + 2) :
                     /\ nm = Suffixed(base, k)
                     /\ nm \notin existing
                     /\ \A j \in 2..(k - 1) : Suffixed(base, j) \in existing]_vars

C19_Witness ==
  /\ last.op = "spawn" /\ last.id = 3
  /\ sessions = {1, 2, 3}
  /\ obj[1].name = <<"task", 2>> /\ hist[1].requested = <<"task", 2>>
  /\ obj[2].name = <<"task">>
  /\ obj[3].name = <<"task", 3>> /\ hist[3].requested = <<"task">>

\* C20: in every reachable state a session's completion time is set exactly
\* when its status is completed, failed or killed.
C20_CompletedAtIffTerminal ==
  \A id \in DOMAIN obj :
     (obj[id].completedAt # 0) <=> (obj[id].status \in Terminal)
\* C21: the output buffer never holds more than OUTPUT_BUFFER_MAX entries, and
\* it is exactly the most recent min(k, OUTPUT_BUFFER_MAX) of the k text blocks
\* the session has received, in arrival order.
C21_BufferIsRecentTexts ==
  \A id \in DOMAIN obj :
    LET buf == obj[id].outputBuffer
        all == hist[id].texts
        k   == Len(all)
        m   == IF k < OUTPUT_BUFFER_MAX THEN k ELSE OUTPUT_BUFFER_MAX
    IN /\ Len(buf) <= OUTPUT_BUFFER_MAX
       /\ buf = SubSeq(all, k - m + 1, k)

\* More than OUTPUT_BUFFER_MAX text blocks were received and the oldest one
\* has been dropped from the full buffer.
C21_Witness ==
  \E id \in DOMAIN obj :
    /\ Len(hist[id].texts) = OUTPUT_BUFFER_MAX + 1
    /\ Len(obj[id].outputBuffer) = OUTPUT_BUFFER_MAX
    /\ obj[id].outputBuffer[1] = hist[id].texts[2]

\* C22: getOutput(n) with n greater than the buffer length returns the whole
\* buffer in order; with 1 <= n <= length it returns exactly the last n
\* entries in order; getOutput() returns the whole buffer.
C22_GetOutput ==
  last.op = "getOutput" =>
    LET buf == obj[last.id].outputBuffer
        len == Len(buf)
    IN /\ last.arg = <<>> => last.ret = buf
       /\ (last.arg # <<>> /\ last.arg[1] > len) => last.ret = buf
       /\ (last.arg # <<>> /\ last.arg[1] >= 1 /\ last.arg[1] <= len) =>
            last.ret = SubSeq(buf, len - last.arg[1] + 1, len)

\* The last two entries of a buffer of at least three were asked for.
C22_Witness ==
  /\ last.op = "getOutput"
  /\ last.arg = <<2>>
  /\ Len(obj[last.id].outputBuffer) >= 3
  /\ Len(last.ret) = 2

\* C23: resolveAgentChannel(workdir) returns the destination of the entry
\* whose normalised path equals the normalised workdir or is a proper
\* ancestor directory of it; among several such entries the longest path
\* wins whatever the order of the table; it returns undefined when no entry
\* matches.
C23_LongestMatchWins ==
  last.op = "resolveAgentChannel" =>
    LET mapping == IF pluginConfig.agentChannels = <<>> THEN <<>>
                   ELSE pluginConfig.agentChannels[1]
        nw == normalise(last.arg)
        hits == {i \in 1..Len(mapping) :
                   \/ normalise(mapping[i].dir) = nw
                   \/ startsWith(nw, Append(normalise(mapping[i].dir), Slash))}
        best == {i \in hits : \A j \in hits :
                   Len(normalise(mapping[i].dir)) >= Len(normalise(mapping[j].dir))}
    IN IF hits = {} THEN last.ret = NoChannel
       ELSE last.ret \in {mapping[i].channel : i \in best}

\* The first available value of the chain for a launch request: the channel
\* derived from the caller's context, the workspace lookup, the configured
\* fallbackChannel, the sentinel.  (claude_launch takes no channel parameter.)
ChainOrigin(req) ==
  LET ctx == req.ctx
      parts == split(ctx.messageChannel, "|")
      fromCtx ==
        IF ~Truthy(ctx.messageChannel) \/ Len(parts) < 2 THEN NoChannel
        ELSE IF Truthy(ctx.agentAccountId)
        THEN Str(Tokens(parts[1]) \o <<"|">> \o Tokens(ctx.agentAccountId)
                 \o <<"|">> \o joinTokens(Tail(parts), "|"))
        ELSE ctx.messageChannel
      fromWorkspace ==
        IF ctx.workspaceDir # <<>> /\ Truthy(resolveAgentChannel(ctx.workspaceDir[1]))
        THEN resolveAgentChannel(ctx.workspaceDir[1])
        ELSE resolveAgentChannel(LaunchWorkdir(ctx, req.params))
  IN IF Truthy(fromCtx) THEN fromCtx
     ELSE IF Truthy(fromWorkspace) THEN fromWorkspace
     ELSE IF pluginConfig.fallbackChannel # <<>> /\ Truthy(pluginConfig.fallbackChannel[1])
     THEN pluginConfig.fallbackChannel[1]
     ELSE Unknown

\* C24: the origin of a launched session is the first available value of the
\* chain explicit channel, caller-context channel, workspace lookup,
\* fallbackChannel, "unknown"; it is never the empty string.
C24_OriginChain ==
  (last.op = "spawn" /\ ~last.err /\ last.arg # <<>>) =>
     /\ obj[last.id].originChannel = ChainOrigin(last.arg[1])
     /\ obj[last.id].originChannel # ""

\* C25: the sentinel "unknown" and the empty destination are never forwarded
\* as a target, neither by the delivery function nor by the directly
\* addressed wake: a notification addressed to them goes to the configured
\* fallback channel or is dropped, and the wake of a session whose origin is
\* the sentinel uses the system event.
C25_SentinelNeverForwarded ==
  /\ \A c \in DOMAIN outbox :
        outbox[c] # <<>> =>
          LET run == sendMessage(c)
          IN /\ run.cmd = "message send" => run.target \notin {Unknown, ""}
             /\ c \in {Unknown, ""} =>
                  \/ run.cmd = "none"
                  \/ /\ pluginConfig.fallbackChannel # <<>>
                     /\ Str(<<run.channel, ":", run.target>>)
                          = pluginConfig.fallbackChannel[1]
  /\ \A id \in DOMAIN obj :
        hist[id].wakeVia.cmd = "message send" =>
          /\ obj[id].originChannel \notin {Unknown, ""}
          /\ hist[id].wakeVia.target \notin {Unknown, ""}

\* A session whose origin is the sentinel has completed: its notification was
\* handed to the delivery function, which dropped it, and its wake went out
\* as a system event.
C25_Witness ==
  \E id \in DOMAIN obj :
    /\ obj[id].originChannel = Unknown
    /\ outbox[Unknown] # <<>>
    /\ sendMessage(Unknown).cmd = "none"
    /\ hist[id].wakeVia.cmd = "system event"

\* C26: claude_sessions called by an agent whose workspace resolves to a
\* destination lists exactly the pooled sessions matching the status filter
\* whose origin equals that destination, whatever their own working
\* directory; when the workspace has no mapping it lists all sessions
\* matching the filter.
C26_ListedByOrigin ==
  last.op = "claude_sessions" =>
    LET ctx == last.arg.ctx
        filter == last.arg.filter
        dest == IF ctx.workspaceDir = <<>> THEN NoChannel
                ELSE resolveAgentChannel(ctx.workspaceDir[1])
        matching == {id \in sessions : filter = "all" \/ obj[id].status = filter}
        listed == {last.ret[k] : k \in 1..Len(last.ret)}
    IN /\ Cardinality(listed) = Len(last.ret)
       /\ listed = IF dest # NoChannel
                   THEN {id \in matching : obj[id].originChannel = dest}
                   ELSE matching

\* An agent whose workspace resolves to a destination is shown a session of
\* that origin whose working directory resolves to nothing, while another
\* pooled session of a different origin is left out.
C26_Witness ==
  /\ last.op = "claude_sessions"
  /\ last.arg.ctx.workspaceDir # <<>>
  /\ Truthy(resolveAgentChannel(last.arg.ctx.workspaceDir[1]))
  /\ \E k \in 1..Len(last.ret) :
        resolveAgentChannel(obj[last.ret[k]].workdir) = NoChannel
  /\ \E id \in sessions : \A k \in 1..Len(last.ret) : last.ret[k] # id

\* A completion or budget notification of the session has been delivered to
\* its origin.
NotifiedAtOrigin(id) ==
  /\ id \in DOMAIN obj
  /\ hist[id].complete[obj[id].originChannel]
       + hist[id].budget[obj[id].originChannel] > 0

\* C27: whenever a running session with an origin becomes terminal, by a
\* turn result, SessionManager.kill, the idle-timeout auto-kill or an
\* exception of the consumption loop, a completion or budget notification
\* is eventually delivered to its origin.
C27_TerminalIsNotified ==
  \A id \in Ids :
    (/\ id \in DOMAIN obj
     /\ last.id = id /\ last.pre = "running"
     /\ obj[id].status \in Terminal
     /\ obj[id].originChannel \in Channels)
    ~> NotifiedAtOrigin(id)

\* The buffer of a (session, destination) pair leaves the debounce map only
\* at the head of the body of one text message to that destination; until
\* then it only grows at its end.
C28_BufferLeavesByDelivery ==
  [][\A k \in DOMAIN debounceMap :
       \/ k \in DOMAIN debounceMap' /\ IsPrefix(debounceMap[k], debounceMap'[k])
       \/ \E n \in 1..Len(outbox'[k[2]]) :
             /\ outbox'[k[2]][n].kind = "text"
             /\ outbox'[k[2]][n].sid = k[1]
             /\ IsPrefix(debounceMap[k], outbox'[k[2]][n].body)]_vars

\* C28: every text appended to the debounce buffer of a (session,
\* destination) pair is eventually delivered to that destination, exactly
\* once, in one concatenated message that preserves the arrival order; it is
\* never discarded, in particular not by cleanupSession at completion or
\* budget exhaustion.
C28_DebouncedTextDelivered ==
  /\ C28_BufferLeavesByDelivery
  /\ \A id \in Ids, c \in Channels :
        (<<id, c>> \in DOMAIN debounceMap) ~> (<<id, c>> \notin DOMAIN debounceMap)

C30_WaitingOnlyWhenRunning ==
  [][\A id \in DOMAIN obj :
       Fires(hist'[id], "waiting") > Fires(hist[id], "waiting")
         => obj'[id].status = "running"]_vars

\* The keys of session id under which p holds a snapshot of that session.
OwnKeys(p, id) ==
  {k \in {IdKey(id), NameKey(obj[id].name), ClaudeKey(obj[id].claudeSessionId)} :
     PHas(p, k) /\ PGet(p, k).owner = id}

\* C31: once the snapshot of a session is persisted, each of its three keys
\* (internal id, name, correlation id) keeps returning that session's own
\* snapshot until cleanup evicts it; a later session that reuses the name or
\* the correlation id neither redirects nor removes any of these keys.
C31_KeysStayOwn ==
  [][\A id \in DOMAIN obj :
       last'.op # "cleanup" => OwnKeys(persistedSessions, id)
                                 \subseteq OwnKeys(persistedSessions', id)]_vars

\* C32: cleanup removes from the pool only sessions whose status is terminal
\* and whose completion is older than the retention window, never a starting
\* or running one, and every removed session that has a correlation id has
\* been written to the persisted index by then.
C32_CleanupRemovesExpiredOnly ==
  [][\A id \in sessions \ sessions' :
       /\ last'.op = "cleanup"
       /\ obj[id].status \in Terminal
       /\ obj[id].completedAt # 0
       /\ now - obj[id].completedAt > CLEANUP_MAX_AGE_MS
       /\ obj[id].claudeSessionId # 0 => hist'[id].written]_vars

\* Cleanup has removed a session that has a correlation id and whose
\* completion was never reported by a callback or a kill: cleanup wrote it.
C32_Witness ==
  /\ last.op = "cleanup"
  /\ \E id \in DOMAIN obj \ sessions :
        /\ obj[id].claudeSessionId # 0
        /\ hist[id].written
        /\ hist[id].cb = <<>> /\ hist[id].kills = 0

\* The sessions of which p holds a snapshot under some key.
Owners(p) == {p[i].info.owner : i \in 1..Len(p)}

\* C33: when cleanup finds more distinct persisted snapshots than
\* maxPersistedSessions it evicts exactly the excess ones with the oldest
\* completion times and removes every key that pointed to an evicted
\* snapshot, leaving no dangling key and removing no key of a retained one.
C33_EvictsOldestExcess ==
  [][last'.op = "cleanup" =>
       LET before == PersistAll(World, SetToSeq(sessions \ sessions')).p
           after == persistedSessions'
           evicted == Owners(before) \ Owners(after)
       IN /\ Cardinality(Owners(before)) > maxPersistedSessions =>
                Cardinality(Owners(after)) = maxPersistedSessions
          /\ Cardinality(Owners(before)) <= maxPersistedSessions => after = before
          /\ \A i \in 1..Len(before), j \in 1..Len(before) :
                (before[i].info.owner \in Owners(after)
                   /\ before[j].info.owner \in evicted)
                  => before[i].info.completedAt >= before[j].info.completedAt
          /\ \A i \in 1..Len(before) :
                before[i].info.owner \in Owners(after)
                  => \E j \in 1..Len(after) : after[j] = before[i]]_vars

\* C34: when starting the engine throws synchronously inside start(), the
\* session that spawn returns is in the pool, failed, with its error text and
\* completion time set; none of its callbacks has fired or fires later, and
\* it is not among the sessions counted toward the active cap.
C34_SyncStartFailure ==
  \A id \in DOMAIN obj :
    obj[id].engine = "none" =>
      /\ obj[id].status = "failed"
      /\ obj[id].error
      /\ obj[id].completedAt # 0
      /\ obj[id].completedAt = obj[id].startedAt
      /\ hist[id].cb = <<>>
      /\ hist[id].events = 0
      /\ ActiveCount = Cardinality({s \in sessions \ {id} : obj[s].status \in Active})
      /\ (last.op = "spawn" /\ last.id = id) => id \in sessions

\* A session whose start threw has since been the target of a kill.
C34_Witness ==
  \E id \in sessions :
    /\ obj[id].engine = "none"
    /\ obj[id].status = "failed"
    /\ hist[id].kills > 0

\* C35: when the consumption loop throws, a session that was starting or
\* running becomes failed with its error and completion time set; a session
\* that was already terminal keeps its status, error and completion time.
C35_ThrowFailsOnlyActive ==
  [][last'.op = "engine-throw" =>
       LET id == last'.id
       IN IF obj[id].status \in Active
          THEN /\ obj'[id].status = "failed"
               /\ obj'[id].error
               /\ obj'[id].completedAt = now
          ELSE /\ obj'[id].status = obj[id].status
               /\ obj'[id].error = obj[id].error
               /\ obj'[id].completedAt = obj[id].completedAt]_vars

\* The loop of a killed session threw after a later clock tick.
C35_Witness ==
  /\ last.op = "engine-throw"
  /\ last.pre = "killed"
  /\ obj[last.id].status = "killed"
  /\ ~obj[last.id].error
  /\ obj[last.id].completedAt < now

\* C36: sendMessage on a session that is not running raises an error and
\* changes nothing: no message is enqueued or injected, the idle timer is not
\* reset and the waiting flag is not cleared.
C36_SendToNonRunningIsNoop ==
  [][(last'.op = "sendMessage" /\ obj[last'.id].status # "running") =>
       LET id == last'.id
       IN /\ last'.err
          /\ obj'[id].pending = obj[id].pending
          /\ obj'[id].idleTimer = obj[id].idleTimer
          /\ obj'[id].activeSinceArmed = obj[id].activeSinceArmed
          /\ obj'[id].waitingForInputFired = obj[id].waitingForInputFired
          /\ obj' = obj
          /\ hist' = hist
          /\ stream' = stream]_vars

\* A message was refused by a failed multi-turn session whose waiting flag
\* is set and whose idle timer is still armed.
C36_Witness ==
  /\ last.op = "sendMessage"
  /\ last.err
  /\ obj[last.id].multiTurn
  /\ obj[last.id].status = "failed"
  /\ obj[last.id].waitingForInputFired
  /\ obj[last.id].idleTimer
  /\ obj[last.id].activeSinceArmed

\* C37: the idle timer is armed only for multi-turn sessions; when it expires
\* on a running session the session becomes killed, with its stream ended and
\* its engine aborted, and one slot of the active cap is freed; an idle expiry
\* leaves the status of a single-turn or non-running session as it is, and a
\* safety-net expiry leaves every status as it is.
C37_IdleTimerKillsRunningMultiTurn ==
  [][/\ \A id \in DOMAIN obj' : obj'[id].idleTimer => obj'[id].multiTurn
     /\ last'.op = "idle-timeout" =>
           LET id == last'.id
           IN IF obj[id].status = "running" /\ obj[id].multiTurn
              THEN /\ obj'[id].status = "killed"
                   /\ obj'[id].completedAt = now
                   /\ obj'[id].streamDone
                   /\ obj'[id].aborted
                   /\ ActiveCount' = ActiveCount - 1
              ELSE obj'[id].status = obj[id].status
     /\ last'.op = "safety-net" =>
           \A id \in DOMAIN obj : obj'[id].status = obj[id].status]_vars

\* The idle timer expired on a running multi-turn session.
C37_Witness ==
  /\ last.op = "idle-timeout"
  /\ last.pre = "running"
  /\ obj[last.id].multiTurn
  /\ obj[last.id].status = "killed"
  /\ ActiveCount = 0

NonEmptySegments(o) ==
  LET parts == split(o, ":")
  IN Cardinality({k \in 1..Len(parts) : parts[k] # ""})

\* C38: every waiting wake and every completion wake is one wake attempt,
\* the directly addressed message when the origin of the session is not the
\* sentinel and has at least two non-empty segments, the broadcast system
\* event otherwise.
C38_OneWakeOfTheRightTier ==
  [][\A id \in DOMAIN obj :
       LET o == obj[id].originChannel
           n == (hist'[id].wakes + hist'[id].waitWakes)
                  - (hist[id].wakes + hist[id].waitWakes)
       IN n # 0 =>
            /\ n = 1
            /\ hist'[id].wakeVia.cmd =
                 IF Truthy(o) /\ o # Unknown /\ NonEmptySegments(o) >= 2
                 THEN "message send" ELSE "system event"]_vars

Pooled(ref) ==
  {s \in sessions : IdKey(s) = ref \/ NameKey(obj[s].name) = ref}

\* C39: resolveClaudeSessionId(ref) returns the correlation id of the pooled
\* session whose id or name is ref when there is one (and it has been given
\* its correlation id), otherwise that of the
\* persisted snapshot keyed by ref, otherwise ref itself when it is a
\* well-formed UUID, otherwise undefined; so the name, the internal id and the
\* correlation id of a finished session that is still pooled or persisted
\* all resolve to the correlation id of that session.
C39_ResolvesToOwnCorrelationId ==
  [][last'.op = "resolveClaudeSessionId" =>
       LET ref == last'.arg
           ret == last'.ret
       IN /\ ret = IF \E s \in Pooled(ref) : obj[s].claudeSessionId # 0
                   THEN obj[CHOOSE s \in Pooled(ref) :
                              obj[s].claudeSessionId # 0].claudeSessionId
                   ELSE IF PHas(persistedSessions, ref)
                   THEN PGet(persistedSessions, ref).claudeSessionId
                   ELSE IF ref[1] = "claude" THEN ref[2]
                   ELSE 0
          /\ \A id \in DOMAIN obj :
                (/\ obj[id].status \in Terminal
                 /\ obj[id].claudeSessionId # 0
                 /\ id \in sessions \/ PHas(persistedSessions, IdKey(id))
                 /\ ref \in {IdKey(id), NameKey(obj[id].name),
                             ClaudeKey(obj[id].claudeSessionId)})
                  => ret = obj[id].claudeSessionId]_vars

\* C40: stop() delivers every non-empty pending debounce buffer to the
\* destination it was buffered for, whatever the number of segments of that
\* destination, and leaves no pending entry and no timer.
C40_StopFlushesToOwnDestination ==
  [][last'.op = "stop" =>
       /\ debounceMap' = <<>>
       /\ \A k \in DOMAIN debounceMap :
             debounceMap[k] # <<>> =>
               \E n \in 1..Len(outbox'[k[2]]) :
                  outbox'[k[2]][n] = [kind |-> "text", sid |-> k[1],
                                      body |-> debounceMap[k]]]_vars

====
